---- MODULE Spec2Model ----
(***************************************************************************)
(* Spendora: the product price normalisation and estimation engine.        *)
(*   SimpleProductScraper      (lib/simpleProductScraper)                  *)
(*   RealMarketDataAPI         (lib/realMarketDataAPI)                     *)
(*   ProductScrapingService    (lib/productScrapingService)                *)
(*   FlashAIIntegration        (lib/flashAIIntegration.ts)                 *)
(* Strings are TLA+ strings, read character by character with SubSeq.      *)
(* Numbers are integers; every product below stays under 2^31.             *)
(***************************************************************************)
EXTENDS Integers, Sequences, FiniteSets, TLC

VARIABLES
    pc,                \* position of the analysis request
    productUrl,        \* the URL handed to analyzeProduct
    originalProduct,   \* ProductData returned by extractProductData, or null
    priceComparisons,  \* PriceComparison[] returned by getRealPriceComparisons
    html,              \* what fetchPageContent returned for productUrl, or null
    analysis,          \* FlashAnalysisResult (the fields read here), or null
    random,            \* the value the next Math.random() returns, in 1/RandSteps
    estimateLog,       \* calls of generateReasonablePrice: name, price, Math.random state
    validation,        \* the last call of the price validator, or null
    call,              \* the last call of another pure method, or null
    request,           \* the JSON body of the POST being served, or null
    response,          \* the NextResponse the POST handler returned, or null
    priceAlerts,       \* the Map priceAlerts of the price monitor: id -> PriceAlert
    monitoredProducts, \* the Map monitoredProducts: productId -> MonitoredProduct
    inflight,          \* POSTs of the price monitor awaiting fetchCurrentPrices
    expenses,          \* expenses.json of the one user, newest first
    budgets,           \* budgets.json of the one user, newest first
    clock              \* ids drawn so far (Date.now() of the id just drawn)

vars == <<pc, productUrl, html, originalProduct, priceComparisons, analysis,
          random, estimateLog, validation, call, request, response,
          priceAlerts, monitoredProducts, inflight, expenses, budgets, clock>>

\* the stores of the price monitor and of the database
storeVars == <<priceAlerts, monitoredProducts, inflight, expenses, budgets, clock>>

\* null / undefined: a record where a record is expected, -1 where a number is
null == [null |-> TRUE]
undefined == 0 - 1
\* new Map()
EmptyMap == [k \in {} |-> null]

----------------------------------------------------------------------------
(* Bounds *)

\* Math.random() is drawn from {0, 1/RandSteps, ..., (RandSteps-1)/RandSteps}
RandSteps == 2
\* number of estimator calls kept in estimateLog
MaxCalls == 2

RandGrid == 0..(RandSteps - 1)

----------------------------------------------------------------------------
(* Strings *)

Upper == "ABCDEFGHIJKLMNOPQRSTUVWXYZ"
Lower == "abcdefghijklmnopqrstuvwxyz"
Digits == "0123456789"

CharAt(str, i) == SubSeq(str, i, i)

InAlphabet(c, alphabet) == \E i \in 1..Len(alphabet) : CharAt(alphabet, i) = c

IndexIn(c, alphabet) == CHOOSE i \in 1..Len(alphabet) : CharAt(alphabet, i) = c

\* String.prototype.charCodeAt for the characters product names and URLs are
\* made of
charCodeAt(str, i) ==
    LET c == CharAt(str, i) IN
    IF c = " " THEN 32
    ELSE IF c = "+" THEN 43
    ELSE IF c = "-" THEN 45
    ELSE IF c = "." THEN 46
    ELSE IF c = "/" THEN 47
    ELSE IF c = ":" THEN 58
    ELSE IF c = "=" THEN 61
    ELSE IF c = "?" THEN 63
    ELSE IF InAlphabet(c, Digits) THEN 47 + IndexIn(c, Digits)
    ELSE IF InAlphabet(c, Upper) THEN 64 + IndexIn(c, Upper)
    ELSE 96 + IndexIn(c, Lower)

RECURSIVE toLowerCase(_)
toLowerCase(str) ==
    IF Len(str) = 0 THEN ""
    ELSE LET c == CharAt(str, 1)
             l == IF InAlphabet(c, Upper) THEN CharAt(Lower, IndexIn(c, Upper)) ELSE c
         IN l \o toLowerCase(SubSeq(str, 2, Len(str)))

\* String.prototype.includes
includes(str, sub) ==
    \E i \in 1..(Len(str) - Len(sub) + 1) : SubSeq(str, i, i + Len(sub) - 1) = sub

RECURSIVE toUpperCase(_)
toUpperCase(str) ==
    IF Len(str) = 0 THEN ""
    ELSE LET c == CharAt(str, 1)
             u == IF InAlphabet(c, Lower) THEN CharAt(Upper, IndexIn(c, Lower)) ELSE c
         IN u \o toUpperCase(SubSeq(str, 2, Len(str)))

\* str.replace(/c/g, ' ') for a single character c
RECURSIVE replaceWithSpace(_, _)
replaceWithSpace(str, c) ==
    IF Len(str) = 0 THEN ""
    ELSE (IF CharAt(str, 1) = c THEN " " ELSE CharAt(str, 1))
         \o replaceWithSpace(SubSeq(str, 2, Len(str)), c)

Min2(a, b) == IF a < b THEN a ELSE b
Max2(a, b) == IF a > b THEN a ELSE b

----------------------------------------------------------------------------
(* Deterministic price estimator *)

\* 32-bit hash kept as two 16-bit halves <<hi, lo>>:
\* hash = ((hash << 5) - hash) + char; hash = hash & hash
RECURSIVE hashLoop(_, _, _, _)
hashLoop(str, i, hi, lo) ==
    IF i > Len(str) THEN <<hi, lo>>
    ELSE LET t == 31 * lo + charCodeAt(str, i)
         IN hashLoop(str, i + 1, (31 * hi + t \div 65536) % 65536, t % 65536)

\* Math.abs of the signed 32-bit hash
generateSimpleHash(str) ==
    LET h == hashLoop(str, 1, 0, 0) IN
    IF h[1] < 32768 THEN h[1] * 65536 + h[2]
    ELSE (65535 - h[1]) * 65536 + (65536 - h[2])

\* Math.abs(x - Math.floor(x)) for x = Math.sin(nameHash) * 10000, as its first
\* twelve decimal digits <<d1..d4, d5..d8, d9..d12>>, for the hashes of the
\* product names and URLs of this model (IEEE-754 double values)
SinSeedDigits ==
       0 :> <<0, 0, 0>>                    \* ""
    @@ 1355179215 :> <<9108, 5797, 7580>>  \* "Product"
    @@ 292247268 :> <<8330, 9475, 9433>>   \* "Samsung Galaxy Phone"
    @@ 39993660 :> <<2912, 9462, 5676>>    \* "samsung galaxy phone"
    @@ 1486296713 :> <<9524, 8068, 9918>>  \* "lg phone"
    @@ 1790517947 :> <<695, 5860, 3317>>   \* "smartphone"
    @@ 1905928473 :> <<6166, 33, 5346>>    \* "Dell Laptop"
    @@ 881377690 :> <<4560, 6708, 7759>>   \* "tablet"
    @@ 203416690 :> <<7831, 406, 5914>>    \* "headphone"
    @@ 805905448 :> <<3060, 3969, 3121>>   \* "earphone"
    @@ 109407734 :> <<9898, 2426, 1036>>   \* "shirt"
    @@ 1268931421 :> <<6145, 1411, 3131>>  \* "t-shirt"
    @@ 100998859 :> <<8881, 2840, 5880>>   \* "jeans"
    @@ 109413096 :> <<7335, 2116, 5157>>   \* "shoes"
    @@ 94924930 :> <<8767, 8426, 8002>>    \* "cream"
    @@ 678822588 :> <<6251, 5809, 3269>>   \* "perfume"
    @@ 1081519863 :> <<5673, 820, 3193>>   \* "makeup"
    @@ 1335154332 :> <<3153, 6450, 6419>>  \* "tv cream"
    @@ 1900188987 :> <<3124, 2277, 4858>>  \* "camera shirt"
    @@ 1364050302 :> <<3120, 3423, 8508>>  \* "face washing cream"
    @@ 95849015 :> <<9039, 7576, 1510>>    \* "dress"
    @@ 3029737 :> <<8506, 7526, 3446>>     \* "book"
    @@ 330047941 :> <<9384, 7631, 7000>>   \* "wooden chair"
    @@ 2026364243 :> <<6412, 3502, 984>>   \* "roadster cotton shirt"
    @@ 1691033935 :> <<4658, 4232, 1733>>  \* "lakme face cream"
    @@ 1720019528 :> <<7497, 3098, 7457>>  \* "sunscreen"
    @@ 435236378 :> <<7384, 2284, 537>>    \* https://www.amazon.in/Samsung-Galaxy-Phone/dp/B0C1
    @@ 805953432 :> <<9413, 6482, 4521>>   \* https://www.flipkart.com/samsung-galaxy-phone/p/itm1
    @@ 1506069681 :> <<7892, 367, 1964>>   \* https://www.flipkart.com/lg-phone/p/itm2
    @@ 2053577502 :> <<2219, 8420, 1269>>  \* https://www.myntra.com/roadster-cotton-shirt
    @@ 1490172549 :> <<3372, 1114, 1000>>  \* https://www.nykaa.com/lakme-face-cream/p/55
    @@ 486702562 :> <<2323, 8219, 3877>>   \* https://shop.example.com/products/wooden-chair
    @@ 906278167 :> <<394, 618, 900>>     \* https://shop.example.com/?q=tv+cream
    @@ 738335269 :> <<515, 9396, 2451>>    \* https://shop.example.com/

\* Math.floor(normalizedSeed * n) from the digits of normalizedSeed
floorSeedTimes(nameHash, n) ==
    LET d == SinSeedDigits[nameHash]
    IN (d[1] * n + (d[2] * n + (d[3] * n) \div 10000) \div 10000) \div 10000

\* priceRanges, in the key order Object.entries walks
priceRanges == <<
    [keyword |-> "phone",        min |-> 8000,  max |-> 100000],
    [keyword |-> "smartphone",   min |-> 8000,  max |-> 100000],
    [keyword |-> "laptop",       min |-> 25000, max |-> 150000],
    [keyword |-> "tablet",       min |-> 10000, max |-> 80000],
    [keyword |-> "headphone",    min |-> 1000,  max |-> 50000],
    [keyword |-> "earphone",     min |-> 500,   max |-> 15000],
    [keyword |-> "tv",           min |-> 15000, max |-> 200000],
    [keyword |-> "camera",       min |-> 10000, max |-> 200000],
    [keyword |-> "shirt",        min |-> 400,   max |-> 5000],
    [keyword |-> "t-shirt",      min |-> 300,   max |-> 3000],
    [keyword |-> "dress",        min |-> 600,   max |-> 10000],
    [keyword |-> "jeans",        min |-> 800,   max |-> 8000],
    [keyword |-> "shoes",        min |-> 1000,  max |-> 15000],
    [keyword |-> "sneaker",      min |-> 1500,  max |-> 12000],
    [keyword |-> "cream",        min |-> 200,   max |-> 3000],
    [keyword |-> "perfume",      min |-> 800,   max |-> 8000],
    [keyword |-> "sunscreen",    min |-> 200,   max |-> 1500],
    [keyword |-> "shampoo",      min |-> 150,   max |-> 2000],
    [keyword |-> "makeup",       min |-> 300,   max |-> 5000],
    [keyword |-> "microwave",    min |-> 5000,  max |-> 40000],
    [keyword |-> "refrigerator", min |-> 15000, max |-> 100000],
    [keyword |-> "washing",      min |-> 12000, max |-> 80000],
    [keyword |-> "book",         min |-> 100,   max |-> 2000],
    [keyword |-> "default",      min |-> 500,   max |-> 10000] >>

\* the for-loop of generateReasonablePrice: first keyword contained in the name
selectedPriceRange(productName) ==
    LET name == toLowerCase(productName)
        hits == {i \in 1..Len(priceRanges) :
                    /\ priceRanges[i].keyword # "default"
                    /\ includes(name, priceRanges[i].keyword)}
    IN IF hits = {} THEN priceRanges[Len(priceRanges)]
       ELSE priceRanges[CHOOSE i \in hits : \A j \in hits : i <= j]

\* as estimateRealisticBasePrice does without a URL: Math.random() for the seed
generateReasonablePrice_random(productName) ==
    LET selectedRange == selectedPriceRange(productName)
    IN (random * (selectedRange.max - selectedRange.min + 1)) \div RandSteps
       + selectedRange.min

\* the seed scaled by max + 1 instead of the width of the range
generateReasonablePrice_wide(productName) ==
    LET selectedRange == selectedPriceRange(productName)
        nameHash == generateSimpleHash(productName)
    IN floorSeedTimes(nameHash, selectedRange.max + 1) + selectedRange.min

generateReasonablePrice(productName) ==
    LET selectedRange == selectedPriceRange(productName)
        nameHash == generateSimpleHash(productName)
    IN floorSeedTimes(nameHash, selectedRange.max - selectedRange.min + 1)
       + selectedRange.min

----------------------------------------------------------------------------
(* Category price validator *)

maxReasonablePrice == 500000
minReasonablePrice == 10

\* validationRanges, in the key order Object.entries walks
validationRanges == <<
    [type |-> "phone",      min |-> 3000,  max |-> 200000, typical |-> [min |-> 8000,  max |-> 80000]],
    [type |-> "smartphone", min |-> 3000,  max |-> 200000, typical |-> [min |-> 8000,  max |-> 80000]],
    [type |-> "laptop",     min |-> 15000, max |-> 300000, typical |-> [min |-> 25000, max |-> 120000]],
    [type |-> "tablet",     min |-> 5000,  max |-> 150000, typical |-> [min |-> 10000, max |-> 60000]],
    [type |-> "headphone",  min |-> 200,   max |-> 100000, typical |-> [min |-> 1000,  max |-> 25000]],
    [type |-> "earphone",   min |-> 100,   max |-> 50000,  typical |-> [min |-> 500,   max |-> 10000]],
    [type |-> "shirt",      min |-> 150,   max |-> 15000,  typical |-> [min |-> 400,   max |-> 4000]],
    [type |-> "t-shirt",    min |-> 100,   max |-> 10000,  typical |-> [min |-> 300,   max |-> 2500]],
    [type |-> "jeans",      min |-> 400,   max |-> 20000,  typical |-> [min |-> 800,   max |-> 6000]],
    [type |-> "shoes",      min |-> 500,   max |-> 50000,  typical |-> [min |-> 1000,  max |-> 12000]],
    [type |-> "cream",      min |-> 50,    max |-> 10000,  typical |-> [min |-> 200,   max |-> 2500]],
    [type |-> "perfume",    min |-> 200,   max |-> 30000,  typical |-> [min |-> 800,   max |-> 8000]],
    [type |-> "makeup",     min |-> 100,   max |-> 15000,  typical |-> [min |-> 300,   max |-> 4000]] >>

\* the loop without its break: the last type contained in the name wins
detectedTypeIndex_lastMatch(productName) ==
    LET name == toLowerCase(productName)
        hits == {i \in 1..Len(validationRanges) : includes(name, validationRanges[i].type)}
    IN IF hits = {} THEN 0 ELSE CHOOSE i \in hits : \A j \in hits : i >= j

\* the for-loop of validatePriceByCategory: index of the first type contained
\* in the name, 0 when selectedRange stays null
detectedTypeIndex(productName) ==
    LET name == toLowerCase(productName)
        hits == {i \in 1..Len(validationRanges) : includes(name, validationRanges[i].type)}
    IN IF hits = {} THEN 0 ELSE CHOOSE i \in hits : \A j \in hits : i <= j

\* the checks of validatePriceByCategory on selectedRange = validationRanges[k]
\* (k = 0: selectedRange is null and the price is accepted)
checkSelectedRange(price, k) ==
    IF k # 0 /\ (price < validationRanges[k].min \/ price > validationRanges[k].max)
    THEN [isValid |-> FALSE,
          suggestedPrice |-> Min2(Max2(price, validationRanges[k].typical.min),
                                  validationRanges[k].typical.max)]
    ELSE [isValid |-> TRUE, suggestedPrice |-> undefined]

\* the suggestion clamped into [min, max] instead of the typical band
validatePriceByCategory_clampRange(price, productName, platform) ==
    LET k == detectedTypeIndex(productName) IN
    IF k # 0 /\ (price < validationRanges[k].min \/ price > validationRanges[k].max)
    THEN [isValid |-> FALSE,
          suggestedPrice |-> Min2(Max2(price, validationRanges[k].min),
                                  validationRanges[k].max)]
    ELSE [isValid |-> TRUE, suggestedPrice |-> undefined]

\* the price rejected as soon as it leaves the typical band
validatePriceByCategory_typical(price, productName, platform) ==
    LET k == detectedTypeIndex(productName) IN
    IF k # 0 /\ (price < validationRanges[k].typical.min
                 \/ price > validationRanges[k].typical.max)
    THEN [isValid |-> FALSE,
          suggestedPrice |-> Min2(Max2(price, validationRanges[k].typical.min),
                                  validationRanges[k].typical.max)]
    ELSE [isValid |-> TRUE, suggestedPrice |-> undefined]

validatePriceByCategory(price, productName, platform) ==
    checkSelectedRange(price, detectedTypeIndex(productName))

\* the rejected price kept although a suggestion is supplied
applyCategoryValidation_keepPrice(price, categoryValidation) ==
    price

\* the last step of validateAndNormalizePrice: the suggested price when the
\* category validation failed and gave one, the price itself otherwise
applyCategoryValidation(price, categoryValidation) ==
    IF ~categoryValidation.isValid
    THEN (IF categoryValidation.suggestedPrice \notin {undefined, 0}
          THEN categoryValidation.suggestedPrice ELSE price)
    ELSE price

\* the check against minReasonablePrice left out
validateAndNormalizePrice_noFloor(price, productName, platform) ==
    IF price <= 0 THEN 0
    ELSE IF price > maxReasonablePrice THEN generateReasonablePrice(productName)
    ELSE applyCategoryValidation(price,
             validatePriceByCategory(price, productName, platform))

validateAndNormalizePrice(price, productName, platform) ==
    IF price <= 0 THEN 0
    ELSE IF price > maxReasonablePrice THEN generateReasonablePrice(productName)
    ELSE IF price < minReasonablePrice THEN generateReasonablePrice(productName)
    ELSE applyCategoryValidation(price,
             validatePriceByCategory(price, productName, platform))

----------------------------------------------------------------------------
(* URLs: [host, path (the segments between the slashes), q (raw ?q= value)] *)

RECURSIVE joinPath(_)
joinPath(path) ==
    IF path = <<>> THEN "" ELSE "/" \o Head(path) \o joinPath(Tail(path))

\* URL.pathname
pathname(url) == IF url.path = <<>> THEN "/" ELSE joinPath(url.path)

\* the URL as the string the request carries
urlString(url) ==
    "https://" \o url.host \o pathname(url)
    \o (IF url.q = "" THEN "" ELSE "?q=" \o url.q)

detectPlatform(url) ==
    LET hostname == toLowerCase(urlString(url)) IN
    IF includes(hostname, "amazon") THEN "Amazon"
    ELSE IF includes(hostname, "flipkart") THEN "Flipkart"
    ELSE IF includes(hostname, "myntra") THEN "Myntra"
    ELSE IF includes(hostname, "nykaa") THEN "Nykaa"
    ELSE IF includes(hostname, "ajio") THEN "Ajio"
    ELSE "Unknown"

extractProductNameFromUrl(url) ==
    LET parts == IF url.path = <<>> THEN <<"", "">> ELSE <<"">> \o url.path
        dps == {i \in 1..Len(parts) : parts[i] = "dp"}
        dpIndex == IF dps = {} THEN 0 ELSE CHOOSE i \in dps : \A j \in dps : i <= j
        pathParts == SelectSeq(url.path, LAMBDA part : Len(part) > 2)
    IN IF includes(pathname(url), "/dp/") /\ dpIndex > 1 /\ parts[dpIndex - 1] # ""
       THEN replaceWithSpace(parts[dpIndex - 1], "-")
       ELSE IF includes(pathname(url), "/p/")
       THEN replaceWithSpace(parts[2], "-")
       ELSE IF url.q # ""
       THEN replaceWithSpace(url.q, "+")     \* searchParams.get decodes the value
       ELSE IF Len(pathParts) > 0
       THEN replaceWithSpace(pathParts[Len(pathParts)], "-")
       ELSE "Product"

----------------------------------------------------------------------------
(* Discount calculator and page extraction *)

\* Math.round(a / b) for a >= 0, b > 0
roundDiv(a, b) == (2 * a + b) \div (2 * b)

\* the percentage taken of the selling price instead of the MRP
calculateDiscount_ofSelling(sellingPrice, mrp) ==
    IF mrp \in {undefined, 0} \/ mrp <= sellingPrice
    THEN [discountPercentage |-> undefined, discountAmount |-> undefined]
    ELSE [discountPercentage |-> roundDiv((mrp - sellingPrice) * 100,
                                          Max2(sellingPrice, 1)),
          discountAmount |-> mrp - sellingPrice]

calculateDiscount(sellingPrice, mrp) ==
    IF mrp \in {undefined, 0} \/ mrp <= sellingPrice
    THEN [discountPercentage |-> undefined, discountAmount |-> undefined]
    ELSE [discountPercentage |-> roundDiv((mrp - sellingPrice) * 100, mrp),
          discountAmount |-> mrp - sellingPrice]

\* A fetched page as the extractor reads it: title is the first non-empty text
\* of the title selectors; prices and mrps are the numbers extractPrice gives
\* for the price and MRP selectors that have text, in selector order.

\* the two selector loops: the first price above 0, then the first MRP above it
firstAbove(numbers, floor, otherwise) ==
    LET hits == {i \in 1..Len(numbers) : numbers[i] > floor}
    IN IF hits = {} THEN otherwise
       ELSE numbers[CHOOSE i \in hits : \A j \in hits : i <= j]

extractAmazonPrices(page) ==
    LET sellingPrice == firstAbove(page.prices, 0, 0)
    IN [price |-> sellingPrice,
        originalPrice |-> firstAbove(page.mrps, sellingPrice, undefined)]

extractFlipkartPrices(page) ==
    LET sellingPrice == firstAbove(page.prices, 0, 0)
    IN [price |-> sellingPrice,
        originalPrice |-> firstAbove(page.mrps, sellingPrice, undefined)]

ProductData(name, price, originalPrice, availability, platform) ==
    LET d == calculateDiscount(price, originalPrice) IN
    [name |-> name, price |-> price, originalPrice |-> originalPrice,
     discountPercentage |-> d.discountPercentage,
     discountAmount |-> d.discountAmount,
     availability |-> availability, platform |-> platform]

\* the tail shared by the extractors once name and prices are read: the
\* validated prices, the discount, and null when the validated price is 0
validatedProductData(name, price, originalPrice, availability, platform) ==
    IF price = 0 THEN null
    ELSE ProductData(name, price, originalPrice, availability, platform)

validatedOriginalPrice(originalPrice, name, platform) ==
    IF originalPrice \in {undefined, 0} THEN undefined
    ELSE validateAndNormalizePrice(originalPrice, name, platform)

pricedProductData(name, raw, availability, platform) ==
    IF name = "" THEN null
    ELSE IF raw.price = 0 THEN null
    ELSE validatedProductData(name,
             validateAndNormalizePrice(raw.price, name, platform),
             validatedOriginalPrice(raw.originalPrice, name, platform),
             availability, platform)

extractAmazonData(page, url) ==
    pricedProductData(page.title, extractAmazonPrices(page), "In Stock", "Amazon")

extractFlipkartData(page, url) ==
    pricedProductData(page.title, extractFlipkartPrices(page), "In Stock", "Flipkart")

\* the price found by the selectors, or the estimate for the name when none was
genericPrice(found, name) ==
    IF found = 0 THEN generateReasonablePrice(name) ELSE found

genericProductData(name, nameOrProduct, found, originalPrice, platform) ==
    ProductData(nameOrProduct,
                validateAndNormalizePrice(genericPrice(found, name), nameOrProduct,
                                          platform),
                validatedOriginalPrice(originalPrice, nameOrProduct, platform),
                "Available", platform)

extractGenericData(page, url, platform) ==
    genericProductData(page.title,
                       IF page.title = "" THEN "Product" ELSE page.title,
                       firstAbove(page.prices, 0, 0),
                       firstAbove(page.mrps, firstAbove(page.prices, 0, 0), undefined),
                       platform)

\* mutant of generateFallbackData: the record without an estimate, price 0
generateFallbackData_noPrice(url, platform) ==
    [name |-> extractProductNameFromUrl(url),
     price |-> 0,
     originalPrice |-> undefined,
     discountPercentage |-> undefined, discountAmount |-> undefined,
     availability |-> "Check availability", platform |-> platform]

\* mutant of generateFallbackData: no record when scraping fails
generateFallbackData_null(url, platform) == null

generateFallbackData(url, platform) ==
    LET productName == extractProductNameFromUrl(url) IN
    [name |-> IF productName = "" THEN "Product" ELSE productName,
     price |-> generateReasonablePrice(productName),
     originalPrice |-> undefined,
     discountPercentage |-> undefined, discountAmount |-> undefined,
     availability |-> "Check availability", platform |-> platform]

\* lines 71 to 79 of extractProductData: no data from the extractor gives
\* fallback data
productDataOrFallback(productData, url, platform) ==
    IF productData # null THEN productData
    ELSE generateFallbackData(url, platform)

\* switch (platform): the page extractor of the platform applied to the page
extractByPlatform(url, content, platform) ==
    IF platform = "Amazon" THEN extractAmazonData(content, url)
    ELSE IF platform = "Flipkart" THEN extractFlipkartData(content, url)
    ELSE extractGenericData(content, url, platform)

\* extractProductData after fetchPageContent has returned content (a page or
\* null); threw: cheerio or an extractor raised, which the catch turns into
\* fallback data
extractProductData(url, content, threw) ==
    IF threw \/ content = null THEN generateFallbackData(url, detectPlatform(url))
    ELSE productDataOrFallback(extractByPlatform(url, content, detectPlatform(url)),
                               url, detectPlatform(url))

----------------------------------------------------------------------------
(* Market data *)

includesAny(str, subs) == \E sub \in subs : includes(str, sub)

extractProductInfo(productName, url) ==
    LET name == IF productName = "" THEN "Product" ELSE productName
        nameUpper == toUpperCase(name)
    IN [name |-> name, url |-> url,
        category |->
          IF includesAny(nameUpper, {"PHONE", "MOBILE", "SMARTPHONE", "LAPTOP",
                                     "TABLET", "TV", "REFRIGERATOR", "HEADPHONE"})
          THEN "electronics"
          ELSE IF includesAny(nameUpper, {"SHIRT", "JEANS", "SHOE", "DRESS", "SNEAKER"})
          THEN "fashion"
          ELSE IF includesAny(nameUpper, {"SUNSCREEN", "CREAM", "SPF", "MOISTURIZER",
                                          "MAKEUP"})
          THEN "beauty"
          ELSE "general"]

generateUrlHash(url) ==
    LET h == hashLoop(url, 1, 0, 0) IN
    IF h[1] < 32768 THEN h[1] * 65536 + h[2]
    ELSE (65535 - h[1]) * 65536 + (65536 - h[2])

Range(lo, hi) == [min |-> lo, max |-> hi]

\* productInfo.url is the request's URL, never empty, so the estimate is the
\* URL-seeded one
estimateRealisticBasePrice(productInfo) ==
    LET nameUpper == toUpperCase(productInfo.name)
        category == productInfo.category
        productRange ==
          IF category = "electronics" THEN
            IF includesAny(nameUpper, {"PHONE", "SMARTPHONE", "MOBILE"}) THEN Range(8000, 100000)
            ELSE IF includesAny(nameUpper, {"LAPTOP", "NOTEBOOK"}) THEN Range(25000, 150000)
            ELSE IF includesAny(nameUpper, {"TABLET", "IPAD"}) THEN Range(10000, 80000)
            ELSE IF includesAny(nameUpper, {"HEADPHONE", "EARPHONE", "EARBUDS"}) THEN Range(1000, 50000)
            ELSE IF includesAny(nameUpper, {"TV", "TELEVISION"}) THEN Range(15000, 200000)
            ELSE IF includesAny(nameUpper, {"REFRIGERATOR", "FRIDGE"}) THEN Range(15000, 100000)
            ELSE Range(5000, 50000)
          ELSE IF category = "fashion" THEN
            IF includesAny(nameUpper, {"SHOE", "SNEAKER", "BOOT"}) THEN Range(1500, 15000)
            ELSE IF includesAny(nameUpper, {"SHIRT", "T-SHIRT", "TOP"}) THEN Range(500, 5000)
            ELSE IF includesAny(nameUpper, {"JEAN", "PANT", "TROUSER"}) THEN Range(1000, 8000)
            ELSE IF includesAny(nameUpper, {"DRESS", "KURTI"}) THEN Range(800, 10000)
            ELSE Range(500, 5000)
          ELSE IF category = "beauty" THEN
            IF includesAny(nameUpper, {"PERFUME", "FRAGRANCE"}) THEN Range(800, 8000)
            ELSE IF includesAny(nameUpper, {"CREAM", "MOISTURIZER", "LOTION"}) THEN Range(200, 3000)
            ELSE IF includesAny(nameUpper, {"SUNSCREEN", "SPF"}) THEN Range(200, 1500)
            ELSE IF includesAny(nameUpper, {"MAKEUP", "FOUNDATION", "LIPSTICK"}) THEN Range(300, 5000)
            ELSE Range(200, 2000)
          ELSE Range(500, 10000)
        urlHash == generateUrlHash(urlString(productInfo.url))
    IN floorSeedTimes(urlHash, productRange.max - productRange.min + 1)
       + productRange.min

\* priceMultiplier in hundredths
getRelevantPlatforms(category) ==
    LET basePlatforms == << [name |-> "Amazon", priceMultiplier |-> 100],
                            [name |-> "Flipkart", priceMultiplier |-> 98] >>
    IN IF category = "fashion"
       THEN basePlatforms \o << [name |-> "Myntra", priceMultiplier |-> 105],
                                [name |-> "Ajio", priceMultiplier |-> 102] >>
       ELSE IF category = "beauty"
       THEN basePlatforms \o << [name |-> "Nykaa", priceMultiplier |-> 103],
                                [name |-> "Purplle", priceMultiplier |-> 96] >>
       ELSE IF category = "electronics"
       THEN basePlatforms \o << [name |-> "Croma", priceMultiplier |-> 108],
                                [name |-> "Reliance Digital", priceMultiplier |-> 104] >>
       ELSE basePlatforms

\* Math.round(basePrice * priceMultiplier * (0.95 + Math.random() * 0.1)) with
\* Math.random() = draw / RandSteps, in exact arithmetic:
\* basePrice * b / c  with  b = multiplier * (95 * RandSteps + 10 * draw),
\* c = 10000 * RandSteps, split so that no product passes 2^31
finalPrice(basePrice, priceMultiplier, draw) ==
    LET b == priceMultiplier * (95 * RandSteps + 10 * draw)
        c == 10000 * RandSteps
    IN (basePrice \div c) * b + roundDiv((basePrice % c) * b, c)

\* draws[i]: the Math.random() that sets the price variation of platform i
generateRealisticMarketData(productInfo, url, originalPrice, draws) ==
    LET basePrice == IF originalPrice \notin {undefined, 0} /\ originalPrice > 0
                        /\ originalPrice < 500000
                     THEN originalPrice
                     ELSE estimateRealisticBasePrice(productInfo)
        platforms == getRelevantPlatforms(productInfo.category)
    IN [success |-> TRUE,
        prices |-> [i \in 1..Len(platforms) |->
                      [platform |-> platforms[i].name,
                       price |-> finalPrice(basePrice, platforms[i].priceMultiplier,
                                            draws[i])]]]

fetchRealMarketData(productName, url, originalPrice, draws) ==
    generateRealisticMarketData(extractProductInfo(productName, url), url,
                                originalPrice, draws)

\* getRealPriceComparisons.  analyzeProductFromUrl never returns null, so the
\* retry for a null originalProduct is written as its outcome for a product
\* that cannot be analyzed, [].  marketData.success is always true: the branch
\* that lists originalProduct first and calls findSimilarProducts never runs.
getRealPriceComparisons(product, url, draws) ==
    IF product = null THEN <<>>
    ELSE LET marketData == fetchRealMarketData(product.name, url, product.price, draws)
         IN [i \in 1..Len(marketData.prices) |->
               [platform |-> marketData.prices[i].platform,
                price |-> marketData.prices[i].price,
                originalPrice |-> undefined,
                discountPercentage |-> undefined,
                discountAmount |-> undefined]]

----------------------------------------------------------------------------
(* Inputs *)

ProductNames == {
    "", "Product", "Samsung Galaxy Phone", "samsung galaxy phone", "lg phone",
    "smartphone", "Dell Laptop", "tablet", "headphone", "earphone", "shirt",
    "t-shirt", "jeans", "shoes", "cream", "perfume", "makeup", "tv cream",
    "camera shirt", "face washing cream", "dress", "book", "wooden chair",
    "roadster cotton shirt", "lakme face cream", "sunscreen" }

Platforms == {"Amazon", "Flipkart", "Myntra", "Nykaa", "Ajio", "Unknown"}

\* prices on and next to every boundary the validator compares against
PriceSamples ==
    UNION { { validationRanges[i].min - 1, validationRanges[i].min,
              validationRanges[i].max, validationRanges[i].max + 1,
              validationRanges[i].typical.min - 1, validationRanges[i].typical.min,
              validationRanges[i].typical.max, validationRanges[i].typical.max + 1 }
            : i \in 1..Len(validationRanges) }
    \cup { 0, 1, minReasonablePrice - 1, minReasonablePrice, minReasonablePrice + 1,
           45999, maxReasonablePrice - 1, maxReasonablePrice, maxReasonablePrice + 1,
           600000 }

ProductUrls == {
    [host |-> "www.amazon.in",    path |-> <<"Samsung-Galaxy-Phone", "dp", "B0C1">>, q |-> ""],
    [host |-> "www.flipkart.com", path |-> <<"samsung-galaxy-phone", "p", "itm1">>,  q |-> ""],
    [host |-> "www.flipkart.com", path |-> <<"lg-phone", "p", "itm2">>,              q |-> ""],
    [host |-> "www.myntra.com",   path |-> <<"roadster-cotton-shirt">>,              q |-> ""],
    [host |-> "www.nykaa.com",    path |-> <<"lakme-face-cream", "p", "55">>,        q |-> ""],
    [host |-> "shop.example.com", path |-> <<"products", "wooden-chair">>,           q |-> ""],
    [host |-> "shop.example.com", path |-> <<>>,                                     q |-> "tv+cream"],
    [host |-> "shop.example.com", path |-> <<>>,                                     q |-> ""] }

\* pages: no title or a title; no price, a price under the floor, a price
\* after a selector that gave 0, a price at and above the ceiling; no MRP or
\* two MRP candidates
Pages ==
    [title : {"", "Samsung Galaxy Phone", "sunscreen"},
     prices : {<<>>, <<9>>, <<0, 45999>>, <<500000>>, <<600000>>},
     mrps : {<<>>, <<45999, 59999>>}]

----------------------------------------------------------------------------
(* An analysis request: FlashAIIntegration.analyzeProduct *)

Init ==
    /\ pc = "idle"
    /\ productUrl = null
    /\ html = null
    /\ originalProduct = null
    /\ priceComparisons = <<>>
    /\ analysis = null
    /\ random = 0
    /\ estimateLog = <<>>
    /\ validation = null
    /\ call = null
    /\ request = null
    /\ response = null
    /\ priceAlerts = EmptyMap
    /\ monitoredProducts = EmptyMap
    /\ inflight = EmptyMap
    /\ expenses = <<>>
    /\ budgets = <<>>
    /\ clock = 0

\* analyzeProduct -> analyzeProductFromUrl -> extractProductData, up to the
\* await of fetch; fetchPageContent has drawn the user agent
AnalyzeProduct(url, agentDraw) ==
    /\ pc = "idle"
    /\ pc' = "fetching"
    /\ productUrl' = url
    /\ random' = agentDraw
    /\ UNCHANGED <<storeVars, request, response, call, html, originalProduct, priceComparisons, analysis,
                   estimateLog, validation>>

\* response.ok: the page is parsed and extracted
FetchSucceeds(page) ==
    /\ pc = "fetching"
    /\ pc' = "extracted"
    /\ html' = page
    /\ originalProduct' = extractProductData(productUrl, page, FALSE)
    /\ UNCHANGED <<storeVars, request, response, call, productUrl, priceComparisons, analysis, random,
                   estimateLog, validation>>

\* fetch rejected, or the status is not 2xx: fetchPageContent returns null
FetchFails ==
    /\ pc = "fetching"
    /\ pc' = "extracted"
    /\ html' = null
    /\ originalProduct' = extractProductData(productUrl, null, FALSE)
    /\ UNCHANGED <<storeVars, request, response, call, productUrl, priceComparisons, analysis, random,
                   estimateLog, validation>>

\* the server never answers: fetch is called with no signal and no timer is
\* set, so the promise awaited in fetchPageContent stays pending
FetchNeverResponds ==
    /\ pc = "fetching"
    /\ pc' = "pending"
    /\ UNCHANGED <<storeVars, request, response, call, productUrl, html, originalProduct,
                   priceComparisons, analysis, random, estimateLog, validation>>

\* the page arrived and parsing or extraction raised
ExtractionThrows(page) ==
    /\ pc = "fetching"
    /\ pc' = "extract_failed"
    /\ html' = page
    /\ originalProduct' = extractProductData(productUrl, page, TRUE)
    /\ UNCHANGED <<storeVars, request, response, call, productUrl, priceComparisons, analysis, random,
                   estimateLog, validation>>

\* Phase 2 of analyzeProduct
GetRealPriceComparisons(draws) ==
    /\ pc \in {"extracted", "extract_failed"}
    /\ pc' = "compared"
    /\ priceComparisons' = getRealPriceComparisons(originalProduct, productUrl, draws)
    /\ random' = IF priceComparisons' = <<>> THEN random
                  ELSE draws[Len(priceComparisons')]
    /\ UNCHANGED <<storeVars, request, response, call, productUrl, html, originalProduct, analysis,
                   estimateLog, validation>>

\* Phases 3 to 8 read priceComparisons and originalProduct; the result carries
\* them unchanged
CompleteAnalysis ==
    /\ pc = "compared"
    /\ pc' = "done"
    /\ analysis' = [productName |-> IF originalProduct # null THEN originalProduct.name
                                   ELSE "Product Analysis",
                    originalProduct |-> originalProduct,
                    priceComparison |-> priceComparisons]
    /\ UNCHANGED <<storeVars, request, response, call, productUrl, html, originalProduct, priceComparisons, random,
                   estimateLog, validation>>

----------------------------------------------------------------------------
(* The POST handler of /api/ai-analysis *)

\* The productUrl of a request body: null when the body has no productUrl,
\* else the string it carries, kept as its scheme and the rest; url = null is
\* the empty string, protocol = "" a text with no scheme ("www.amazon.in/...")
RequestUrls ==
    {[protocol |-> "", url |-> null]}
    \cup [protocol : {"", "ftp:", "https:"}, url : ProductUrls]

\* request.json(): SyntaxError stands for a body that is not JSON
SyntaxError == [SyntaxError |-> TRUE]
TypeError == [TypeError |-> TRUE]

RequestBodies == {SyntaxError} \cup [productUrl : {null} \cup RequestUrls]

\* new URL(productUrl): a string without a scheme does not parse
URL(input) ==
    IF input.protocol = "" THEN TypeError
    ELSE [protocol |-> input.protocol, href |-> input.url]

\* NextResponse.json(body, { status })
NextResponse(status, error, analysisResult) ==
    [status |-> status, error |-> error, success |-> status = 200,
     analysis |-> analysisResult]

\* every URL of an unknown shop turned away as well
validateRequest_knownShops(body) ==
    IF body = SyntaxError THEN NextResponse(500, "Internal server error", null)
    ELSE IF body.productUrl = null \/ body.productUrl.url = null
    THEN NextResponse(400, "Product URL is required", null)
    ELSE IF URL(body.productUrl) = TypeError
    THEN NextResponse(400, "Invalid URL format", null)
    ELSE IF URL(body.productUrl).protocol \notin {"http:", "https:"}
            \/ detectPlatform(body.productUrl.url) = "Unknown"
    THEN NextResponse(400, "Invalid URL format", null)
    ELSE null

\* the checks of POST before the analysis: the response that turns the request
\* away, or null when the analysis is started
validateRequest(body) ==
    IF body = SyntaxError THEN NextResponse(500, "Internal server error", null)
    ELSE IF body.productUrl = null \/ body.productUrl.url = null
    THEN NextResponse(400, "Product URL is required", null)
    ELSE IF URL(body.productUrl) = TypeError
    THEN NextResponse(400, "Invalid URL format", null)
    ELSE IF URL(body.productUrl).protocol \notin {"http:", "https:"}
    THEN NextResponse(400, "Invalid URL format", null)
    ELSE null

\* POST up to its first return or, through analyzeProductWithAI and
\* analyzeProduct, to the await of fetch
POST(body, agentDraw) ==
    /\ pc = "idle"
    /\ request' = body
    /\ response' = validateRequest(body)
    /\ IF response' # null
       THEN /\ pc' = "responded"
            /\ UNCHANGED <<productUrl, random>>
       ELSE /\ pc' = "fetching"
            /\ productUrl' = body.productUrl.url
            /\ random' = agentDraw
    /\ UNCHANGED <<storeVars, call, html, originalProduct, priceComparisons, analysis,
                   estimateLog, validation>>

\* analyzeProduct has returned to POST.  Nothing in analyzeProduct is left to
\* throw (its catch returns generateIntelligentFallback), so the responses 502,
\* 408 and 422 of the inner catch are never produced.
RespondWithAnalysis ==
    /\ pc = "done"
    /\ request # null
    /\ pc' = "responded"
    /\ response' = NextResponse(200, "", analysis)
    /\ UNCHANGED <<storeVars, call, request, productUrl, html, originalProduct, priceComparisons,
                   analysis, random, estimateLog, validation>>

Next ==
    \/ \E body \in RequestBodies, agentDraw \in RandGrid : POST(body, agentDraw)
    \/ RespondWithAnalysis
    \/ \E url \in ProductUrls, agentDraw \in RandGrid : AnalyzeProduct(url, agentDraw)
    \/ \E page \in Pages : FetchSucceeds(page)
    \/ FetchFails
    \/ FetchNeverResponds
    \/ \E page \in Pages : ExtractionThrows(page)
    \/ \E draws \in [1..4 -> RandGrid] : GetRealPriceComparisons(draws)
    \/ CompleteAnalysis

Spec == Init /\ [][Next]_vars

\* No fetch stays undecided (the page arrives, the fetch fails, or it is left
\* unanswered for good) and the program takes each step that follows.  The
\* steps out of "fetching" and out of "extracted" are enabled whenever pc has
\* that value, so weak fairness of them is written as leaving that value.
SpecLive ==
    /\ Init
    /\ [][Next]_vars
    /\ []<>(pc # "fetching")
    /\ []<>(pc \notin {"extracted", "extract_failed"})
    /\ WF_vars(CompleteAnalysis)
    /\ WF_vars(RespondWithAnalysis)

----------------------------------------------------------------------------
(* The estimator and the validator called on their own *)

InitCalls ==
    /\ pc = "idle"
    /\ productUrl = null
    /\ html = null
    /\ originalProduct = null
    /\ priceComparisons = <<>>
    /\ analysis = null
    /\ random \in RandGrid
    /\ estimateLog = <<>>
    /\ validation = null
    /\ call = null
    /\ request = null
    /\ response = null
    /\ priceAlerts = EmptyMap
    /\ monitoredProducts = EmptyMap
    /\ inflight = EmptyMap
    /\ expenses = <<>>
    /\ budgets = <<>>
    /\ clock = 0

\* some other component draws Math.random()
MathRandom(r) ==
    /\ r # random
    /\ random' = r
    /\ UNCHANGED <<storeVars, request, response, call, pc, productUrl, html, originalProduct, priceComparisons, analysis,
                   estimateLog, validation>>

Estimate(productName) ==
    /\ Len(estimateLog) < MaxCalls
    /\ estimateLog' = Append(estimateLog,
                             [name |-> productName, random |-> random,
                              price |-> generateReasonablePrice(productName)])
    /\ UNCHANGED <<storeVars, request, response, call, pc, productUrl, html, originalProduct, priceComparisons, analysis,
                   random, validation>>

NextEstimator ==
    \/ \E r \in RandGrid : MathRandom(r)
    \/ \E n \in ProductNames : Estimate(n)

SpecEstimator == InitCalls /\ [][NextEstimator]_vars

ValidateAndNormalizePrice(price, productName, platform) ==
    /\ validation = null
    /\ validation' = [fn |-> "validateAndNormalizePrice",
                      price |-> price, productName |-> productName,
                      platform |-> platform,
                      result |-> validateAndNormalizePrice(price, productName, platform)]
    /\ UNCHANGED <<storeVars, request, response, call, pc, productUrl, html, originalProduct, priceComparisons, analysis,
                   random, estimateLog>>

ValidatePriceByCategory(price, productName, platform) ==
    /\ validation = null
    /\ validation' = [fn |-> "validatePriceByCategory",
                      price |-> price, productName |-> productName,
                      platform |-> platform,
                      result |-> validatePriceByCategory(price, productName, platform)]
    /\ UNCHANGED <<storeVars, request, response, call, pc, productUrl, html, originalProduct, priceComparisons, analysis,
                   random, estimateLog>>

\* platform is only written to the log by both functions
NextValidator ==
    \/ \E p \in PriceSamples, n \in ProductNames, pf \in {"Amazon", "Unknown"} :
          ValidateAndNormalizePrice(p, n, pf)
    \/ \E p \in PriceSamples, n \in ProductNames, pf \in {"Amazon", "Unknown"} :
          ValidatePriceByCategory(p, n, pf)

SpecValidator == InitCalls /\ [][NextValidator]_vars

----------------------------------------------------------------------------
(* Price text normaliser: SimpleProductScraper.extractPrice, and the rupee    *)
(* formatter CurrencyService.formatINR                                        *)

\* str[i], "" outside the string
at(str, i) == IF i \in 1..Len(str) THEN SubSeq(str, i, i) ELSE ""

\* where the run of characters of alphabet that starts at i ends (the index
\* after its last character; i when str[i] is not in alphabet): a greedy
\* [alphabet]* of a regular expression
runEnd(str, i, alphabet) ==
    CHOOSE j \in i..(Len(str) + 1) :
        /\ ~InAlphabet(at(str, j), alphabet)
        /\ \A k \in i..(j - 1) : InAlphabet(at(str, k), alphabet)

\* /[^\d\.,₹Rs KLCrore lakhlac]/gi: the characters the cleaning keeps
KeptCharacters == "0123456789.,₹ RSKLCOEAHrskloceah"

RECURSIVE replaceOthersWithSpace(_)
replaceOthersWithSpace(str) ==
    IF Len(str) = 0 THEN ""
    ELSE (IF InAlphabet(at(str, 1), KeptCharacters) THEN at(str, 1) ELSE " ")
         \o replaceOthersWithSpace(SubSeq(str, 2, Len(str)))

\* String.prototype.trim for a text whose only white space is " "
trim(str) ==
    LET inked == {i \in 1..Len(str) : at(str, i) # " "}
    IN IF inked = {} THEN ""
       ELSE SubSeq(str, CHOOSE i \in inked : \A j \in inked : i <= j,
                        CHOOSE i \in inked : \A j \in inked : i >= j)

cleanedText(priceText) == trim(replaceOthersWithSpace(priceText))

\* (?:\.\d{1,2})? from index e: the index after it
fractionEnd(str, e) ==
    IF at(str, e) = "." /\ InAlphabet(at(str, e + 1), Digits)
    THEN (IF InAlphabet(at(str, e + 2), Digits) THEN e + 3 ELSE e + 2)
    ELSE e

\* ([\d,]+(?:\.\d{1,2})?) from index i: the text captured, "" for no match
groupedNumberAt(str, i) ==
    IF runEnd(str, i, "0123456789,") = i THEN ""
    ELSE SubSeq(str, i, fractionEnd(str, runEnd(str, i, "0123456789,")) - 1)

\* ([\d\.]+)\s*[suffix] from index i, suffix one character of suffixes or,
\* when word is given, that word in any case: the text captured
suffixedNumberAt(str, i, suffixes, word) ==
    IF runEnd(str, i, "0123456789.") = i THEN ""
    ELSE IF (IF word = ""
             THEN InAlphabet(at(str, runEnd(str, runEnd(str, i, "0123456789."), " ")),
                             suffixes)
             ELSE toUpperCase(
                      SubSeq(str,
                             runEnd(str, runEnd(str, i, "0123456789."), " "),
                             Min2(Len(str),
                                  runEnd(str, runEnd(str, i, "0123456789."), " ")
                                  + Len(word) - 1))) = word)
    THEN SubSeq(str, i, runEnd(str, i, "0123456789.") - 1)
    ELSE ""

\* the index after an optional rupee sign at p and the white space after it
afterRupeeSign(str, p) ==
    runEnd(str, IF at(str, p) = "₹" THEN p + 1 ELSE p, " ")

\* the seven entries of formats, tried with the match starting at index p:
\* the text of the capture group, "" when there is no match at p
formatAt(n, str, p) ==
    CASE n = 1 ->   \* /₹\s*([\d,]+(?:\.\d{1,2})?)/
           IF at(str, p) = "₹"
           THEN groupedNumberAt(str, runEnd(str, p + 1, " ")) ELSE ""
      [] n = 2 ->   \* /Rs\.?\s*([\d,]+(?:\.\d{1,2})?)/i
           IF toUpperCase(at(str, p) \o at(str, p + 1)) = "RS"
           THEN groupedNumberAt(str,
                    runEnd(str, IF at(str, p + 2) = "." THEN p + 3 ELSE p + 2, " "))
           ELSE ""
      [] n = 3 ->   \* /₹?\s*([\d\.]+)\s*[Kk.akLakh]/ (its third character is
                    \* a Devanagari letter, which the cleaning has replaced)
           suffixedNumberAt(str, afterRupeeSign(str, p), "KkaLh", "")
      [] n = 4 ->   \* /₹?\s*([\d\.]+)\s*L(?:akh)?/i
           suffixedNumberAt(str, afterRupeeSign(str, p), "", "L")
      [] n = 5 ->   \* /₹?\s*([\d\.]+)\s*Cr(?:ore)?/i
           suffixedNumberAt(str, afterRupeeSign(str, p), "", "CR")
      [] n = 6 ->   \* /([\d]{1,2}[,\d]*(?:\.\d{1,2})?)/
           IF InAlphabet(at(str, p), Digits) THEN groupedNumberAt(str, p) ELSE ""
      [] n = 7 ->   \* /(\d+(?:\.\d{1,2})?)/
           IF InAlphabet(at(str, p), Digits)
           THEN SubSeq(str, p, fractionEnd(str, runEnd(str, p, Digits)) - 1)
           ELSE ""

\* cleanedText.match(formats[n]): match[1] of the leftmost match, "" for null
matchFormat(n, str) ==
    IF \A p \in 1..Len(str) : formatAt(n, str, p) = "" THEN ""
    ELSE formatAt(n, str, CHOOSE p \in 1..Len(str) :
                              /\ formatAt(n, str, p) # ""
                              /\ \A q \in 1..(p - 1) : formatAt(n, str, q) = "")

\* as replace(',', '') does: only the first comma removed
removeCommas_first(str) ==
    IF \A i \in 1..Len(str) : at(str, i) # "," THEN str
    ELSE SubSeq(str, 1, runEnd(str, 1, "0123456789.") - 1)
         \o SubSeq(str, runEnd(str, 1, "0123456789.") + 1, Len(str))

\* match[1].replace(/,/g, '')
RECURSIVE removeCommas(_)
removeCommas(str) ==
    IF Len(str) = 0 THEN ""
    ELSE (IF at(str, 1) = "," THEN "" ELSE at(str, 1))
         \o removeCommas(SubSeq(str, 2, Len(str)))

\* the number a string of digits denotes, 0 for ""
RECURSIVE digitsValue(_)
digitsValue(str) ==
    IF Len(str) = 0 THEN 0
    ELSE 10 * digitsValue(SubSeq(str, 1, Len(str) - 1))
         + IndexIn(at(str, Len(str)), Digits) - 1

\* parseFloat of digits and dots: the longest prefix digits[.digits] as whole
\* part, fraction digits frac and their number d (the value is
\* whole + frac / 10^d); NaN when the prefix has no digit
NaN == [NaN |-> TRUE]

fractionDigits(str, intEnd) ==
    IF at(str, intEnd) = "."
    THEN SubSeq(str, intEnd + 1, runEnd(str, intEnd + 1, Digits) - 1)
    ELSE ""

parseFloat(str) ==
    IF runEnd(str, 1, Digits) = 1 /\ fractionDigits(str, 1) = "" THEN NaN
    ELSE [whole |-> digitsValue(SubSeq(str, 1, runEnd(str, 1, Digits) - 1)),
          frac |-> digitsValue(fractionDigits(str, runEnd(str, 1, Digits))),
          d |-> Len(fractionDigits(str, runEnd(str, 1, Digits)))]

RECURSIVE Pow10(_)
Pow10(n) == IF n = 0 THEN 1 ELSE 10 * Pow10(n - 1)

\* the thousand looked for before the lakh
suffixExponent_thousandFirst(priceText) ==
    IF includes(toUpperCase(priceText), "CR") THEN 7
    ELSE IF includes(toUpperCase(priceText), "K") THEN 3
    ELSE IF includes(toUpperCase(priceText), "L") THEN 5
    ELSE 0

\* the power of ten the Indian suffix multiplies by: crore 7, lakh 5, K 3
suffixExponent(priceText) ==
    IF includes(toUpperCase(priceText), "CR") THEN 7
    ELSE IF includes(toUpperCase(priceText), "L") THEN 5
    ELSE IF includes(toUpperCase(priceText), "K") THEN 3
    ELSE 0

\* Math.round(price * 10^exponent) for price = whole + frac / 10^d
roundScaled(price, exponent) ==
    price.whole * Pow10(exponent)
    + (IF exponent >= price.d THEN price.frac * Pow10(exponent - price.d)
       ELSE roundDiv(price.frac, Pow10(price.d - exponent)))

\* the for-loop over formats from format n on
RECURSIVE extractPriceFrom(_, _, _)
extractPriceFrom(n, priceText, cleaned) ==
    IF n > 7 THEN 0
    ELSE IF matchFormat(n, cleaned) = "" THEN extractPriceFrom(n + 1, priceText, cleaned)
    ELSE IF parseFloat(removeCommas(matchFormat(n, cleaned))) = NaN
    THEN extractPriceFrom(n + 1, priceText, cleaned)
    ELSE roundScaled(parseFloat(removeCommas(matchFormat(n, cleaned))),
                     suffixExponent(priceText))

extractPrice(priceText) ==
    IF priceText = "" THEN 0
    ELSE extractPriceFrom(1, priceText, cleanedText(priceText))

\* the digits of a whole number grouped as en-IN does: the last three, then
\* twos ("1,00,000")
RECURSIVE groupByTwo(_)
groupByTwo(digits) ==
    IF Len(digits) <= 2 THEN digits
    ELSE groupByTwo(SubSeq(digits, 1, Len(digits) - 2)) \o ","
         \o SubSeq(digits, Len(digits) - 1, Len(digits))

RECURSIVE toDigits(_)
toDigits(n) ==
    IF n < 10 THEN at(Digits, n + 1)
    ELSE toDigits(n \div 10) \o at(Digits, (n % 10) + 1)

groupIndian(digits) ==
    IF Len(digits) <= 3 THEN digits
    ELSE groupByTwo(SubSeq(digits, 1, Len(digits) - 3)) \o ","
         \o SubSeq(digits, Len(digits) - 2, Len(digits))

\* formatINR of a whole amount: the rupee sign, the grouped digits and the two
\* fraction digits toLocaleString is asked for
formatINR(amount) == "₹" \o groupIndian(toDigits(amount)) \o ".00"

----------------------------------------------------------------------------
(* The discount calculator called on its own *)

\* selling prices and MRPs: 0, the smallest prices, pairs whose percentage
\* rounds to 0, to 100 and at a half, and the prices of the pages above
DiscountPrices == {0, 1, 9, 10, 199, 200, 995, 999, 1000, 45999, 59999, 500000}

CalculateDiscount(sellingPrice, mrp) ==
    /\ call = null
    /\ call' = [fn |-> "calculateDiscount",
                sellingPrice |-> sellingPrice, mrp |-> mrp,
                result |-> calculateDiscount(sellingPrice, mrp)]
    /\ UNCHANGED <<storeVars, request, response, pc, productUrl, html, originalProduct, priceComparisons, analysis,
                   random, estimateLog, validation>>

NextDiscount ==
    \E sellingPrice \in DiscountPrices, mrp \in DiscountPrices \cup {undefined} :
        CalculateDiscount(sellingPrice, mrp)

SpecDiscount == InitCalls /\ [][NextDiscount]_vars

----------------------------------------------------------------------------
(* The price text normaliser called on its own, and its round trip through *)
(* formatINR                                                               *)

CurrencyPrefixes == {"", "₹", "₹ ", "Rs. ", "Rs "}
PlainAmounts == {"999", "1,234.50", "45,999", "1,00,000", "2,50,000.5", "0.99", "12"}
SuffixedAmounts == {"2.5", "1.5", "0.99", "12", "7"}
Suffixes == {"K", "k", " K", "L", " L", " Lakh", " Cr", " Crore"}

\* texts with two magnitude tokens
TwoTokenTexts == {"₹1.5 Cr (150 Lakh)", "2 Lakh (200K)"}
\* texts whose letters belong to words that are no magnitude token
WordTexts == {"₹999 only", "Kala Store ₹500", "Rs. 450 each"}

\* price texts: every prefix with every amount, the short amounts with every
\* suffix as well, texts with several tokens or with other words, and texts
\* without a price
PriceTexts ==
    {pre \o amount : pre \in CurrencyPrefixes, amount \in PlainAmounts}
    \cup {pre \o amount \o suffix :
            pre \in CurrencyPrefixes, amount \in SuffixedAmounts, suffix \in Suffixes}
    \cup TwoTokenTexts \cup WordTexts
    \cup {"", "Free", "₹,", "12 34K"}

ExtractPrice(priceText) ==
    /\ call = null
    /\ call' = [fn |-> "extractPrice", priceText |-> priceText,
                result |-> extractPrice(priceText)]
    /\ UNCHANGED <<storeVars, request, response, pc, productUrl, html, originalProduct, priceComparisons, analysis,
                   random, estimateLog, validation>>

\* the extracted amount shown as a rupee amount
FormatINR ==
    /\ call # null
    /\ call.fn = "extractPrice"
    /\ call' = [fn |-> "formatINR", priceText |-> call.priceText,
                amount |-> call.result, result |-> formatINR(call.result)]
    /\ UNCHANGED <<storeVars, request, response, pc, productUrl, html, originalProduct, priceComparisons, analysis,
                   random, estimateLog, validation>>

\* the formatted amount read back by extractPrice
ExtractFormatted ==
    /\ call # null
    /\ call.fn = "formatINR"
    /\ call' = [fn |-> "extractPrice(formatINR)", priceText |-> call.priceText,
                amount |-> call.amount, formatted |-> call.result,
                result |-> extractPrice(call.result)]
    /\ UNCHANGED <<storeVars, request, response, pc, productUrl, html, originalProduct, priceComparisons, analysis,
                   random, estimateLog, validation>>

NextNormalizer ==
    \/ \E priceText \in PriceTexts : ExtractPrice(priceText)
    \/ FormatINR
    \/ ExtractFormatted

SpecNormalizer == InitCalls /\ [][NextNormalizer]_vars

----------------------------------------------------------------------------
(* The selector lists read on their own: the texts under the title, price   *)
(* and MRP selectors of a page, in list order ("" where nothing matches)    *)

\* $(a).text().trim() || $(b).text().trim() || ...
RECURSIVE firstText(_)
firstText(texts) ==
    IF texts = <<>> THEN ""
    ELSE IF trim(Head(texts)) # "" THEN trim(Head(texts))
    ELSE firstText(Tail(texts))

\* what a selector loop sees of each selector: extractPrice of its trimmed
\* text, 0 for a selector without text (the if (priceText) guard)
selectorPrices(texts) ==
    [i \in 1..Len(texts) |->
        IF trim(texts[i]) = "" THEN 0 ELSE extractPrice(trim(texts[i]))]

\* the page as the extractors read it
readPage(titleTexts, priceTexts, mrpTexts) ==
    [title |-> firstText(titleTexts),
     prices |-> selectorPrices(priceTexts),
     mrps |-> selectorPrices(mrpTexts)]

TitleTexts == {"", "  ", "sunscreen ", "tablet"}
SelectorTexts == {"", "Free", " ₹99", "₹120"}

\* the name and the prices the Amazon extractor reads from the selector texts
\* (the Flipkart and generic loops are the same two loops)
ReadSelectors(titleTexts, priceTexts, mrpTexts) ==
    /\ call = null
    /\ call' = [fn |-> "extractAmazonPrices",
                titleTexts |-> titleTexts, priceTexts |-> priceTexts,
                mrpTexts |-> mrpTexts,
                name |-> readPage(titleTexts, priceTexts, mrpTexts).title,
                result |-> extractAmazonPrices(readPage(titleTexts, priceTexts,
                                                        mrpTexts))]
    /\ UNCHANGED <<storeVars, request, response, pc, productUrl, html, originalProduct,
                   priceComparisons, analysis, random, estimateLog, validation>>

NextSelectors ==
    \E titleTexts \in [1..2 -> TitleTexts], priceTexts \in [1..2 -> SelectorTexts],
       mrpTexts \in [1..2 -> SelectorTexts] :
        ReadSelectors(titleTexts, priceTexts, mrpTexts)

SpecSelectors == InitCalls /\ [][NextSelectors]_vars

----------------------------------------------------------------------------
(* The cross-platform lookup called on its own: findSimilarProducts *)

\* a search page: whether the first-result selector matches, and the texts
\* under the name, price and link selectors inside it ("" for no href)
SearchPages ==
    [found : BOOLEAN,
     name : {"", "Samsung Galaxy Phone"},
     priceText : {"", "₹12,999", "₹999", "Free"},
     linkHref : {"", "/dp/B0C1"}]

\* extractFirstAmazonResult and extractFirstFlipkartResult differ in their
\* selectors and in the platform they write
extractFirstResult(page, platform) ==
    IF ~page.found THEN null
    ELSE IF page.name = "" \/ extractPrice(page.priceText) = 0 \/ page.linkHref = ""
    THEN null
    ELSE ProductData(IF Len(page.name) > 150 THEN SubSeq(page.name, 1, 150)
                     ELSE page.name,
                     extractPrice(page.priceText), undefined, "In Stock", platform)

\* searchPlatform: page = null when fetchPageContent returned null; threw when
\* cheerio.load or the extraction raised, which the catch turns into null
searchPlatform(platform, page, threw) ==
    IF threw THEN null
    ELSE IF page = null THEN null
    ELSE IF platform \in {"Amazon", "Flipkart"} THEN extractFirstResult(page, platform)
    ELSE null

\* Math.round(basePrice * (variation + (Math.random() * 0.2 - 0.1))), in
\* hundredths of RandSteps
generateFallbackPlatformData(platform, product, draw) ==
    LET variation == IF platform = "Amazon" THEN 95 ELSE 105
        finalVariation == variation * RandSteps + 20 * draw - 10 * RandSteps
    IN ProductData(product.name,
                   roundDiv(product.price * finalVariation, 100 * RandSteps),
                   undefined, "In Stock", platform)

\* a platform whose search gave nothing left out of the results
pushResult_foundOnly(results, result, platform, product, draw) ==
    IF result # null THEN Append(results, result)
    ELSE results

\* if (result) results.push(result) else results.push(fallback)
pushResult(results, result, platform, product, draw) ==
    IF result # null THEN Append(results, result)
    ELSE Append(results, generateFallbackPlatformData(platform, product, draw))

\* the platform whose search is awaited after the search of `searched`
\* ("" at entry), or "returned"
nextSearch(searched, product) ==
    IF searched = "" /\ product.platform # "Amazon" THEN "Amazon"
    ELSE IF searched # "Flipkart" /\ product.platform # "Flipkart" THEN "Flipkart"
    ELSE "returned"

OriginalProducts ==
    { ProductData(name, price, undefined, "In Stock", platform) :
        name \in {"Samsung Galaxy Phone", "wooden chair"},
        price \in {10, 45999, 500000},
        platform \in Platforms }

\* findSimilarProducts up to its first await.  createSearchTerms only feeds
\* the search URL and the log; for a string name nothing before the awaits
\* throws, so the catch of findSimilarProducts is not entered.
FindSimilarProducts(product) ==
    /\ call = null
    /\ call' = [fn |-> "findSimilarProducts", originalProduct |-> product,
                results |-> <<>>, searched |-> <<>>,
                awaiting |-> nextSearch("", product)]
    /\ UNCHANGED <<storeVars, request, response, pc, productUrl, html, originalProduct,
                   priceComparisons, analysis, random, estimateLog, validation>>

\* the awaited searchPlatform returns `result` for the fetched `page` (null
\* when the fetch failed); the record is pushed and the next search, if any,
\* is started
searchReturns(page, result, draw) ==
    /\ call' = [call EXCEPT
                  !.results = pushResult(call.results, result, call.awaiting,
                                         call.originalProduct, draw),
                  !.searched = Append(call.searched,
                                      [platform |-> call.awaiting, page |-> page,
                                       result |-> result]),
                  !.awaiting = nextSearch(call.awaiting, call.originalProduct)]
    /\ random' = draw
    /\ UNCHANGED <<storeVars, request, response, pc, productUrl, html, originalProduct,
                   priceComparisons, analysis, estimateLog, validation>>

Searching ==
    /\ call # null
    /\ call.fn = "findSimilarProducts"
    /\ call.awaiting \in {"Amazon", "Flipkart"}

\* the fetch of the search page failed
SearchFetchFails(draw) ==
    /\ Searching
    /\ searchReturns(null, searchPlatform(call.awaiting, null, FALSE), draw)

\* the search page arrived: a first result is extracted, or none
SearchPageArrives(page, draw) ==
    /\ Searching
    /\ searchReturns(page, searchPlatform(call.awaiting, page, FALSE), draw)

\* the search page arrived and parsing or extraction raised
SearchThrows(page, draw) ==
    /\ Searching
    /\ searchReturns(page, searchPlatform(call.awaiting, page, TRUE), draw)

NextSimilar ==
    \/ \E product \in OriginalProducts : FindSimilarProducts(product)
    \/ \E draw \in RandGrid : SearchFetchFails(draw)
    \/ \E page \in SearchPages, draw \in RandGrid : SearchPageArrives(page, draw)
    \/ \E page \in SearchPages, draw \in RandGrid : SearchThrows(page, draw)

SpecSimilar == InitCalls /\ [][NextSimilar]_vars

----------------------------------------------------------------------------
(* The price monitor: app/api/products/monitor/route.ts.  Requests are served
   concurrently on one thread: a handler runs without interruption from one
   await to the next.  The only await that separates two accesses to the maps
   is the one of fetchCurrentPrices in POST.  currentPrices and the dates are
   left out: no handler reads them back. *)

\* alerts a run creates: ids are drawn while clock < MaxAlerts
MaxAlerts == 2

MonitorProducts == {"p1", "p2"}
MonitorUsers == {"u1", "u2"}

\* bodies of POST: productId, userId and targetPrice as sent; 0 is the
\* targetPrice that "!targetPrice" rejects
MonitorPostBodies ==
    [productId : MonitorProducts, userId : MonitorUsers, targetPrice : {0, 100}]

\* bodies of PUT without the alertId: a field that is absent is undefined
MonitorPutBodies == {[isActive |-> FALSE], [targetPrice |-> 200]}

\* queries of GET: a parameter that is absent is null
MonitorGetQueries ==
    [userId : MonitorUsers] \cup [userId : MonitorUsers, productId : MonitorProducts]
        \cup {[productId |-> "p1"]}

\* Map.set(key, value)
MapSet(map, key, value) ==
    [k \in DOMAIN map \cup {key} |-> IF k = key THEN value ELSE map[k]]

\* Map.delete(key)
MapDelete(map, key) ==
    [k \in DOMAIN map \ {key} |-> map[k]]

\* the elements of an array
elements(array) == {array[i] : i \in DOMAIN array}

\* array.filter(predicate), the predicate given as the set of elements kept
RECURSIVE filter(_, _)
filter(array, kept) ==
    IF array = <<>> THEN <<>>
    ELSE (IF array[1] \in kept THEN <<array[1]>> ELSE <<>>) \o filter(Tail(array), kept)

\* product.alerts.filter(alert => alert.userId === userId)
userAlertsOf(product, userId) ==
    filter(product.alerts, {a \in elements(product.alerts) : a.userId = userId})

\* products.reduce((sum, p) => sum + p.alerts.length, 0)
RECURSIVE totalAlerts(_, _)
totalAlerts(products, keys) ==
    IF keys = {} THEN 0
    ELSE LET k == CHOOSE key \in keys : TRUE
         IN  Len(products[k].alerts) + totalAlerts(products, keys \ {k})

\* GET: the monitored products and alerts of a user
MonitorGET(query) ==
    /\ request' = [method |-> "GET"] @@ query
    /\ response' =
         IF "userId" \notin DOMAIN query
         THEN [status |-> 400, error |-> "User ID is required"]
         ELSE IF "productId" \in DOMAIN query
         THEN IF query.productId \notin DOMAIN monitoredProducts
              THEN [status |-> 404, error |-> "Product not found"]
              ELSE LET product == monitoredProducts[query.productId]
                   IN  [status |-> 200,
                        product |-> product,
                        alerts |-> userAlertsOf(product, query.userId)]
         ELSE LET withAlerts ==
                      {p \in DOMAIN monitoredProducts :
                          userAlertsOf(monitoredProducts[p], query.userId) # <<>>}
                  userProducts ==
                      [p \in withAlerts |->
                          [monitoredProducts[p] EXCEPT
                              !.alerts = userAlertsOf(monitoredProducts[p], query.userId)]]
              IN  [status |-> 200,
                   products |-> userProducts,
                   totalAlerts |-> totalAlerts(userProducts, withAlerts)]
    /\ UNCHANGED <<priceAlerts, monitoredProducts, inflight, clock>>
    /\ UNCHANGED <<pc, productUrl, html, originalProduct, priceComparisons, analysis,
                   random, estimateLog, validation, call, expenses, budgets>>

\* POST from its start to its return or to the await of fetchCurrentPrices:
\* the alert is in priceAlerts, the product has been looked up
MonitorPOST(body) ==
    /\ clock < MaxAlerts
    /\ request' = [method |-> "POST"] @@ body
    /\ IF body.targetPrice = 0
       THEN /\ response' = [status |-> 400, error |-> "Missing required fields"]
            /\ UNCHANGED <<priceAlerts, monitoredProducts, inflight, clock>>
       ELSE LET newAlert == [id |-> clock + 1,
                             productId |-> body.productId,
                             userId |-> body.userId,
                             targetPrice |-> body.targetPrice,
                             isActive |-> TRUE]
            IN  /\ clock' = clock + 1
                /\ priceAlerts' = MapSet(priceAlerts, newAlert.id, newAlert)
                /\ IF body.productId \notin DOMAIN monitoredProducts
                   THEN /\ inflight' = MapSet(inflight, newAlert.id, newAlert)
                        /\ UNCHANGED <<monitoredProducts, response>>
                   ELSE /\ monitoredProducts' =
                              [monitoredProducts EXCEPT
                                  ![body.productId].alerts = Append(@, newAlert)]
                        /\ response' = [status |-> 200, alert |-> newAlert]
                        /\ UNCHANGED inflight
    /\ UNCHANGED <<pc, productUrl, html, originalProduct, priceComparisons, analysis,
                   random, estimateLog, validation, call, expenses, budgets>>

\* POST after the await of fetchCurrentPrices: the product it found missing
\* is created with this alert alone and stored
MonitorPOSTResumes(alertId) ==
    /\ alertId \in DOMAIN inflight
    /\ LET newAlert == inflight[alertId]
           product == [id |-> newAlert.productId, alerts |-> <<newAlert>>]
       IN  /\ monitoredProducts' = MapSet(monitoredProducts, newAlert.productId, product)
           /\ response' = [status |-> 200, alert |-> newAlert]
    /\ inflight' = MapDelete(inflight, alertId)
    /\ UNCHANGED <<priceAlerts, clock, request>>
    /\ UNCHANGED <<pc, productUrl, html, originalProduct, priceComparisons, analysis,
                   random, estimateLog, validation, call, expenses, budgets>>

\* the alert object after PUT has assigned the fields the body defines
updatedAlert(alert, body) ==
    [alert EXCEPT
        !.isActive = IF "isActive" \in DOMAIN body THEN body.isActive ELSE @,
        !.targetPrice = IF "targetPrice" \in DOMAIN body THEN body.targetPrice ELSE @]

\* array.map over the alerts of a product, replacing the alert of this id
RECURSIVE replaceAlert(_, _)
replaceAlert(alerts, alert) ==
    IF alerts = <<>> THEN <<>>
    ELSE <<IF alerts[1].id = alert.id THEN alert ELSE alerts[1]>>
             \o replaceAlert(Tail(alerts), alert)

\* PUT: the alert is one object, held by priceAlerts and by the array of its
\* product; assigning its fields shows in both.  An id is known to a caller
\* from the response of its POST, so no PUT names an alert whose POST awaits.
MonitorPUT(alertId, body) ==
    /\ alertId \notin DOMAIN inflight
    /\ request' = [method |-> "PUT", alertId |-> alertId] @@ body
    /\ IF alertId \notin DOMAIN priceAlerts
       THEN /\ response' = [status |-> 404, error |-> "Alert not found"]
            /\ UNCHANGED <<priceAlerts, monitoredProducts>>
       ELSE LET alert == updatedAlert(priceAlerts[alertId], body)
            IN  /\ priceAlerts' = MapSet(priceAlerts, alertId, alert)
                /\ monitoredProducts' =
                     IF alert.productId \in DOMAIN monitoredProducts
                     THEN [monitoredProducts EXCEPT
                              ![alert.productId].alerts = replaceAlert(@, alert)]
                     ELSE monitoredProducts
                /\ response' = [status |-> 200, alert |-> alert]
    /\ UNCHANGED <<inflight, clock>>
    /\ UNCHANGED <<pc, productUrl, html, originalProduct, priceComparisons, analysis,
                   random, estimateLog, validation, call, expenses, budgets>>

\* DELETE: the alert leaves priceAlerts and the array of its product; a
\* product left without alerts leaves monitoredProducts.  As for PUT, the id
\* is one a POST has returned, or one no alert has.
MonitorDELETE(alertId) ==
    /\ alertId \notin DOMAIN inflight
    /\ request' = [method |-> "DELETE", alertId |-> alertId]
    /\ IF alertId \notin DOMAIN priceAlerts
       THEN /\ response' = [status |-> 404, error |-> "Alert not found"]
            /\ UNCHANGED <<priceAlerts, monitoredProducts>>
       ELSE LET alert == priceAlerts[alertId]
            IN  /\ priceAlerts' = MapDelete(priceAlerts, alertId)
                /\ monitoredProducts' =
                     IF alert.productId \notin DOMAIN monitoredProducts
                     THEN monitoredProducts
                     ELSE LET product == monitoredProducts[alert.productId]
                              alerts == filter(product.alerts,
                                               {a \in elements(product.alerts) : a.id # alertId})
                          IN  IF alerts = <<>>
                              THEN MapDelete(monitoredProducts, alert.productId)
                              ELSE MapSet(monitoredProducts, alert.productId,
                                          [product EXCEPT !.alerts = alerts])
                /\ response' = [status |-> 200, message |-> "Price alert removed successfully"]
    /\ UNCHANGED <<inflight, clock>>
    /\ UNCHANGED <<pc, productUrl, html, originalProduct, priceComparisons, analysis,
                   random, estimateLog, validation, call, expenses, budgets>>

NextMonitor ==
    \/ \E query \in MonitorGetQueries : MonitorGET(query)
    \/ \E body \in MonitorPostBodies : MonitorPOST(body)
    \/ \E alertId \in 1..MaxAlerts : MonitorPOSTResumes(alertId)
    \/ \E alertId \in 1..MaxAlerts, body \in MonitorPutBodies : MonitorPUT(alertId, body)
    \/ \E alertId \in 1..MaxAlerts : MonitorDELETE(alertId)

SpecMonitor == InitCalls /\ [][NextMonitor]_vars

----------------------------------------------------------------------------
(* The database of one user: lib/database.ts.  expenses.json and budgets.json
   are read, changed and written back by each operation; the operations are
   synchronous, so each is one step.

   An amount is a Number, an IEEE 754 double: parseFloat of the text typed
   into the form.  A double above 0 is kept as its 53-bit significand, most
   significant bit first, and the exponent of its last bit: the value is
   m * 2^e.  Sums are rounded to nearest, ties to even, as + and - round
   them.  Subnormals, infinities and NaN are out of reach of the amounts
   used here. *)

\* ids a run draws, for budgets and expenses together
MaxIds == 4

SignificandBits == 53

\* the double 0
Zero == [m |-> <<>>, e |-> 0]

\* n bits 0
zeros(n) == [i \in 1..n |-> 0]

HexDigitBits ==
    "0" :> <<0,0,0,0>> @@ "1" :> <<0,0,0,1>> @@ "2" :> <<0,0,1,0>> @@ "3" :> <<0,0,1,1>> @@
    "4" :> <<0,1,0,0>> @@ "5" :> <<0,1,0,1>> @@ "6" :> <<0,1,1,0>> @@ "7" :> <<0,1,1,1>> @@
    "8" :> <<1,0,0,0>> @@ "9" :> <<1,0,0,1>> @@ "a" :> <<1,0,1,0>> @@ "b" :> <<1,0,1,1>> @@
    "c" :> <<1,1,0,0>> @@ "d" :> <<1,1,0,1>> @@ "e" :> <<1,1,1,0>> @@ "f" :> <<1,1,1,1>>

RECURSIVE hexBits(_)
hexBits(digits) ==
    IF digits = <<>> THEN <<>>
    ELSE HexDigitBits[Head(digits)] \o hexBits(Tail(digits))

\* the double 0x1.<fraction>p<exponent>, fraction of 13 hexadecimal digits
Double(fraction, exponent) ==
    [m |-> <<1>> \o hexBits(fraction), e |-> exponent - (SignificandBits - 1)]

\* a + b + carry of two bit strings of one length: the carry out, then the
\* bits of the sum.  The low half is added first, its carry goes to the high.
RECURSIVE addBits(_, _, _)
addBits(a, b, carry) ==
    IF a = <<>> THEN <<carry>>
    ELSE IF Len(a) = 1
    THEN <<(a[1] + b[1] + carry) \div 2, (a[1] + b[1] + carry) % 2>>
    ELSE LET n == Len(a)
             h == n \div 2
             low == addBits(SubSeq(a, h + 1, n), SubSeq(b, h + 1, n), carry)
         IN  (IF low[1] = 0
              THEN addBits(SubSeq(a, 1, h), SubSeq(b, 1, h), 0)
              ELSE addBits(SubSeq(a, 1, h), SubSeq(b, 1, h), 1)) \o Tail(low)

\* a - b - borrow of two bit strings of one length: the borrow out, then the
\* bits of the difference
RECURSIVE subBits(_, _, _)
subBits(a, b, borrow) ==
    IF a = <<>> THEN <<borrow>>
    ELSE IF Len(a) = 1
    THEN <<IF a[1] - b[1] - borrow < 0 THEN 1 ELSE 0, (a[1] - b[1] - borrow + 2) % 2>>
    ELSE LET n == Len(a)
             h == n \div 2
             low == subBits(SubSeq(a, h + 1, n), SubSeq(b, h + 1, n), borrow)
         IN  (IF low[1] = 0
              THEN subBits(SubSeq(a, 1, h), SubSeq(b, 1, h), 0)
              ELSE subBits(SubSeq(a, 1, h), SubSeq(b, 1, h), 1)) \o Tail(low)

\* a < b for two bit strings of one length: the first bit that differs
\* is 0 in a
lessBits(a, b) ==
    \E i \in 1..Len(a) :
        /\ a[i] < b[i]
        /\ \A j \in 1..(i - 1) : a[j] = b[j]

\* the bits from the first 1 on
stripZeros(bits) ==
    LET ones == {i \in 1..Len(bits) : bits[i] = 1}
    IN  IF ones = {} THEN <<>>
        ELSE SubSeq(bits, CHOOSE i \in ones : \A j \in ones : i <= j, Len(bits))

\* the double nearest to bits * 2^e, ties to even; bits has no leading zero
roundToDouble(bits, e) ==
    IF bits = <<>> THEN Zero
    ELSE IF Len(bits) <= SignificandBits
    THEN [m |-> bits \o zeros(SignificandBits - Len(bits)),
          e |-> e - (SignificandBits - Len(bits))]
    ELSE LET kept == SubSeq(bits, 1, SignificandBits)
             rest == SubSeq(bits, SignificandBits + 1, Len(bits))
             up   == /\ rest[1] = 1
                     /\ \/ \E i \in 2..Len(rest) : rest[i] = 1
                        \/ kept[SignificandBits] = 1
             next == addBits(kept, zeros(SignificandBits), 1)
         IN  IF ~up THEN [m |-> kept, e |-> e + Len(rest)]
             ELSE IF next[1] = 1
             THEN [m |-> SubSeq(next, 1, SignificandBits), e |-> e + Len(rest) + 1]
             ELSE [m |-> Tail(next), e |-> e + Len(rest)]

\* the significand of x written at exponent e <= x.e, in width bits
alignedBits(x, e, width) ==
    LET shifted == x.m \o zeros(x.e - e)
    IN  zeros(width - Len(shifted)) \o shifted

minExponent(x, y) == IF x.e < y.e THEN x.e ELSE y.e

alignedWidth(x, y) ==
    LET e == minExponent(x, y)
        wx == Len(x.m) + (x.e - e)
        wy == Len(y.m) + (y.e - e)
    IN  IF wx > wy THEN wx ELSE wy

\* x + y of two doubles >= 0
plus(x, y) ==
    IF x = Zero THEN y
    ELSE IF y = Zero THEN x
    ELSE LET e == minExponent(x, y)
             w == alignedWidth(x, y)
         IN  roundToDouble(stripZeros(addBits(alignedBits(x, e, w),
                                              alignedBits(y, e, w), 0)), e)

\* Math.max(0, x - y) of two doubles >= 0
maxZeroMinus(x, y) ==
    IF x = Zero THEN Zero
    ELSE IF y = Zero THEN x
    ELSE LET e == minExponent(x, y)
             w == alignedWidth(x, y)
             a == alignedBits(x, e, w)
             b == alignedBits(y, e, w)
         IN  IF lessBits(a, b) THEN Zero
             ELSE roundToDouble(stripZeros(Tail(subBits(a, b, 0))), e)

\* amounts of expenses: 0.1, 0.2 and 5
Amounts ==
    {Double(<<"9","9","9","9","9","9","9","9","9","9","9","9","a">>, 0 - 4),
     Double(<<"9","9","9","9","9","9","9","9","9","9","9","9","a">>, 0 - 3),
     Double(<<"4","0","0","0","0","0","0","0","0","0","0","0","0">>, 2)}

\* array.findIndex(x => x.id === id), from 1; 0 where JavaScript gives -1
RECURSIVE findIndexFrom(_, _, _)
findIndexFrom(array, id, i) ==
    IF i > Len(array) THEN 0
    ELSE IF array[i].id = id THEN i
    ELSE findIndexFrom(array, id, i + 1)

findIndex(array, id) == findIndexFrom(array, id, 1)

\* array.splice(index, 1)
splice(array, index) ==
    SubSeq(array, 1, index - 1) \o SubSeq(array, index + 1, Len(array))

\* the budgets after expense.amount was added to the budget the expense names
budgetsAfterAdd(bs, expense) ==
    IF "budgetId" \notin DOMAIN expense THEN bs
    ELSE LET budgetIndex == findIndex(bs, expense.budgetId)
         IN  IF budgetIndex = 0 THEN bs
             ELSE [bs EXCEPT ![budgetIndex].spent = plus(@, expense.amount)]

\* addExpense(userId, expense)
addExpense(expense) ==
    /\ expenses' = <<expense>> \o expenses
    /\ budgets' = budgetsAfterAdd(budgets, expense)

\* deleteExpense(userId, expenseId); it throws, before it writes, when no
\* expense has the id
deleteExpense(expenseId) ==
    LET expenseIndex == findIndex(expenses, expenseId)
        deletedExpense == expenses[expenseIndex]
    IN  /\ expenseIndex # 0
        /\ expenses' = splice(expenses, expenseIndex)
        /\ budgets' =
             IF "budgetId" \notin DOMAIN deletedExpense THEN budgets
             ELSE LET budgetIndex == findIndex(budgets, deletedExpense.budgetId)
                  IN  IF budgetIndex = 0 THEN budgets
                      ELSE [budgets EXCEPT
                               ![budgetIndex].spent = maxZeroMinus(@, deletedExpense.amount)]

\* addBudget(userId, budget)
addBudget(budget) ==
    /\ budgets' = <<budget>> \o budgets
    /\ UNCHANGED expenses

\* deleteBudget(userId, budgetId); it throws, before it writes, when no budget
\* has the id
deleteBudget(budgetId) ==
    LET budgetIndex == findIndex(budgets, budgetId)
    IN  /\ budgetIndex # 0
        /\ budgets' = splice(budgets, budgetIndex)
        /\ expenses' =
             [i \in DOMAIN expenses |->
                 IF "budgetId" \in DOMAIN expenses[i] /\ expenses[i].budgetId = budgetId
                 THEN [id |-> expenses[i].id, amount |-> expenses[i].amount]
                 ELSE expenses[i]]

\* the forEach of recalculateBudgetSpending over the expenses, first to last
RECURSIVE addLinkedExpenses(_, _)
addLinkedExpenses(bs, es) ==
    IF es = <<>> THEN bs
    ELSE addLinkedExpenses(budgetsAfterAdd(bs, Head(es)), Tail(es))

\* recalculateBudgetSpending(userId): the budgets it saves
recalculateBudgetSpending(es, bs) ==
    addLinkedExpenses([i \in DOMAIN bs |-> [bs[i] EXCEPT !.spent = Zero]], es)

\* the budgets API creates a budget: its id is Date.now(), its spent is the 0
\* the budgets page sends
AddBudget ==
    /\ clock < MaxIds
    /\ clock' = clock + 1
    /\ addBudget([id |-> clock + 1, spent |-> Zero])
    /\ UNCHANGED <<priceAlerts, monitoredProducts, inflight>>
    /\ UNCHANGED <<pc, productUrl, html, originalProduct, priceComparisons, analysis,
                   random, estimateLog, validation, call, request, response>>

\* the expenses API creates an expense that names no budget
AddExpense(amount) ==
    /\ clock < MaxIds
    /\ clock' = clock + 1
    /\ addExpense([id |-> clock + 1, amount |-> amount])
    /\ UNCHANGED <<priceAlerts, monitoredProducts, inflight>>
    /\ UNCHANGED <<pc, productUrl, html, originalProduct, priceComparisons, analysis,
                   random, estimateLog, validation, call, request, response>>

\* the expenses API creates an expense that names a budget: one the form
\* listed, which may have been deleted since
AddLinkedExpense(amount, budgetId) ==
    /\ clock < MaxIds
    /\ clock' = clock + 1
    /\ addExpense([id |-> clock + 1, amount |-> amount, budgetId |-> budgetId])
    /\ UNCHANGED <<priceAlerts, monitoredProducts, inflight>>
    /\ UNCHANGED <<pc, productUrl, html, originalProduct, priceComparisons, analysis,
                   random, estimateLog, validation, call, request, response>>

DeleteExpense(expenseId) ==
    /\ deleteExpense(expenseId)
    /\ UNCHANGED <<priceAlerts, monitoredProducts, inflight, clock>>
    /\ UNCHANGED <<pc, productUrl, html, originalProduct, priceComparisons, analysis,
                   random, estimateLog, validation, call, request, response>>

DeleteBudget(budgetId) ==
    /\ deleteBudget(budgetId)
    /\ UNCHANGED <<priceAlerts, monitoredProducts, inflight, clock>>
    /\ UNCHANGED <<pc, productUrl, html, originalProduct, priceComparisons, analysis,
                   random, estimateLog, validation, call, request, response>>

NextDatabase ==
    \/ AddBudget
    \/ \E amount \in Amounts : AddExpense(amount)
    \/ \E amount \in Amounts, budgetId \in 1..clock : AddLinkedExpense(amount, budgetId)
    \/ \E expenseId \in 1..clock : DeleteExpense(expenseId)
    \/ \E budgetId \in 1..clock : DeleteBudget(budgetId)

SpecDatabase == InitCalls /\ [][NextDatabase]_vars

----------------------------------------------------------------------------
(* Properties of the comparison, checked under Spec *)

\* C1: a request never ends without data: a failed fetch and an exception in
\* the extractor both leave a product record, and the comparison handed back
\* holds at least one price record, whichever fetch outcome occurred.
C1_ComparisonNeverEmpty ==
    /\ pc \in {"extracted", "extract_failed"} => originalProduct # null
    /\ pc \in {"compared", "done"} => Len(priceComparisons) >= 1
    /\ pc = "done" => analysis # null /\ Len(analysis.priceComparison) >= 1

\* a finished request whose only page fetch failed
C1_Witness ==
    /\ pc = "done"
    /\ html = null
    /\ Len(analysis.priceComparison) >= 2

\* C2 as claimed: the first record of every comparison is the record of the
\* platform detected from the input URL.
C2_SourcePlatformFirst ==
    pc = "done" =>
        /\ Len(analysis.priceComparison) >= 1
        /\ analysis.priceComparison[1].platform = detectPlatform(productUrl)

\* C3 as claimed: for a product whose name contains "phone" and whose page
\* could not be fetched, the comparison holds at least one record and every
\* record's price lies within [8000, 100000].
C3_PhoneFallbackWithinRange ==
    (/\ pc = "done"
     /\ html = null
     /\ includes(toLowerCase(analysis.productName), "phone"))
    => /\ Len(analysis.priceComparison) >= 1
       /\ \A i \in 1..Len(analysis.priceComparison) :
             /\ 8000 <= analysis.priceComparison[i].price
             /\ analysis.priceComparison[i].price <= 100000

\* C12 as claimed: in every product record the extractor returns, the list
\* price (originalPrice) is absent or at least the selling price.
C12_ListPriceNotBelowSelling ==
    originalProduct # null =>
        \/ originalProduct.originalPrice = undefined
        \/ originalProduct.originalPrice >= originalProduct.price

\* C13: every price of a returned record is above 0: the selling price of the
\* product record and of every comparison record, and the list price when the
\* record has one.  A price that could not be read gives an estimate or an
\* absent field, never 0.
C13_PricesPositive ==
    /\ originalProduct # null =>
          /\ originalProduct.price > 0
          /\ (originalProduct.originalPrice = undefined
              \/ originalProduct.originalPrice > 0)
    /\ \A i \in 1..Len(priceComparisons) :
          /\ priceComparisons[i].price > 0
          /\ (priceComparisons[i].originalPrice = undefined
              \/ priceComparisons[i].originalPrice > 0)
    /\ pc = "done" =>
          \A i \in 1..Len(analysis.priceComparison) :
              analysis.priceComparison[i].price > 0

\* a fetched page without any price, and a finished request: the record has an
\* estimated price and no list price
C13_Witness ==
    /\ pc = "done"
    /\ html # null
    /\ html.prices = <<>>
    /\ originalProduct.price > 0
    /\ originalProduct.originalPrice = undefined
    /\ Len(analysis.priceComparison) >= 2

\* C16 as claimed: on every platform the page extractor returns null for a
\* fetched page from which no product name or no price could be read.
C16_AbsentWhenNothingExtracted ==
    (/\ pc = "extracted"
     /\ html # null
     /\ (html.title = "" \/ \A i \in 1..Len(html.prices) : html.prices[i] = 0))
    => extractByPlatform(productUrl, html, detectPlatform(productUrl)) = null

----------------------------------------------------------------------------
(* Properties of the estimator, checked under SpecEstimator *)

C5_EstimateWithinRange ==
    \A i \in 1..Len(estimateLog) :
        LET e == estimateLog[i]
            r == selectedPriceRange(e.name)
        IN /\ e.price \in Int
           /\ e.price > 0
           /\ minReasonablePrice <= e.price /\ e.price <= maxReasonablePrice
           /\ r.min <= e.price /\ e.price <= r.max

\* the empty name (hash 0, default range) and a name near the top of its range
C5_Witness ==
    /\ \E i \in 1..Len(estimateLog) :
          estimateLog[i].name = "" /\ estimateLog[i].price = 500
    /\ \E i \in 1..Len(estimateLog) :
          estimateLog[i].name = "lg phone" /\ estimateLog[i].price = 95629

\* C6 as claimed: every estimate passes the category price validator for the
\* same product name (absolute bounds, and [min, max] of the category the
\* validator infers).
C6_EstimateNeverNeedsValidation ==
    \A i \in 1..Len(estimateLog) :
        LET e == estimateLog[i] IN
        /\ minReasonablePrice <= e.price /\ e.price <= maxReasonablePrice
        /\ validatePriceByCategory(e.price, e.name, "Unknown").isValid

----------------------------------------------------------------------------
(* Properties of the validator, checked under SpecValidator *)

Normalized == validation # null /\ validation.fn = "validateAndNormalizePrice"
Categorized == validation # null /\ validation.fn = "validatePriceByCategory"

\* C7: a positive price below 10 or above 500000 is never returned by
\* validateAndNormalizePrice, whatever the product name; the price returned
\* lies within [10, 500000].
C7_AbsoluteBounds ==
    (/\ Normalized
     /\ validation.price > 0
     /\ (validation.price < 10 \/ validation.price > 500000))
    => /\ validation.result # validation.price
       /\ 10 <= validation.result /\ validation.result <= 500000

\* a price under the floor for a name no category matches
C7_Witness ==
    /\ Normalized
    /\ validation.productName = "wooden chair"
    /\ validation.price = 9
    /\ validation.result = 9416

\* C8: for a name that matches a category and a price below its min or above
\* its max, validatePriceByCategory reports invalid and suggests typical.min
\* for the price below min, typical.max for the price above max.
C8_SuggestionIsClamp ==
    Categorized =>
        LET k == detectedTypeIndex(validation.productName) IN
        (k # 0 /\ (validation.price < validationRanges[k].min
                   \/ validation.price > validationRanges[k].max))
        => /\ validation.result.isValid = FALSE
           /\ validation.result.suggestedPrice =
                (IF validation.price < validationRanges[k].min
                 THEN validationRanges[k].typical.min
                 ELSE validationRanges[k].typical.max)

\* a laptop priced one above the laptop max
C8_Witness ==
    /\ Categorized
    /\ validation.productName = "Dell Laptop"
    /\ validation.price = 300001
    /\ validation.result = [isValid |-> FALSE, suggestedPrice |-> 120000]

\* C9: a price within [10, 500000] is returned unchanged when no category
\* matches the name, or when it lies within [min, max] of the matched
\* category, inside the typical band or not.
C9_AcceptedUnchanged ==
    Normalized =>
        LET k == detectedTypeIndex(validation.productName) IN
        (/\ 10 <= validation.price /\ validation.price <= 500000
         /\ (k = 0 \/ (/\ validationRanges[k].min <= validation.price
                        /\ validation.price <= validationRanges[k].max)))
        => validation.result = validation.price

\* a laptop at 24999: within [15000, 300000], below the typical 25000
C9_Witness ==
    /\ Normalized
    /\ validation.productName = "Dell Laptop"
    /\ validation.price = 24999
    /\ validation.result = 24999

\* C10 as claimed: whenever validation of a price fails, the price supplied in
\* its place lies within [min, max] of the category inferred from the name,
\* or within [10, 500000] when no category matched.
C10_SubstituteWithinCategory ==
    Normalized =>
        LET k == detectedTypeIndex(validation.productName)
            failed == /\ validation.price > 0
                      /\ \/ validation.price > maxReasonablePrice
                         \/ validation.price < minReasonablePrice
                         \/ ~validatePriceByCategory(validation.price,
                               validation.productName, validation.platform).isValid
        IN failed =>
             IF k # 0
             THEN /\ validationRanges[k].min <= validation.result
                  /\ validation.result <= validationRanges[k].max
             ELSE /\ minReasonablePrice <= validation.result
                  /\ validation.result <= maxReasonablePrice

----------------------------------------------------------------------------
(* Properties of the discount calculator, checked under SpecDiscount *)

Discounted == call # null /\ call.fn = "calculateDiscount"

\* C11: for a selling price above 0 and an MRP above it, calculateDiscount
\* returns discountAmount = mrp - sellingPrice and discountPercentage = the
\* whole number nearest to discountAmount / mrp * 100 (a half rounds up),
\* which lies in 0..100; for an absent MRP or an MRP not above the selling
\* price it returns neither field.
C11_DiscountCorrect ==
    Discounted =>
        LET sp == call.sellingPrice
            mrp == call.mrp
            r == call.result
        IN /\ (sp > 0 /\ mrp # undefined /\ mrp > sp) =>
                 /\ r.discountAmount = mrp - sp
                 /\ r.discountPercentage \in 0..100
                 /\ (2 * r.discountPercentage - 1) * mrp <= 200 * (mrp - sp)
                 /\ 200 * (mrp - sp) < (2 * r.discountPercentage + 1) * mrp
           /\ (mrp = undefined \/ mrp <= sp) =>
                 /\ r.discountAmount = undefined
                 /\ r.discountPercentage = undefined

\* 995 against an MRP of 1000: 0.5 percent, which rounds up to 1
C11_Witness ==
    /\ Discounted
    /\ call.sellingPrice = 995
    /\ call.mrp = 1000
    /\ call.result = [discountPercentage |-> 1, discountAmount |-> 5]

----------------------------------------------------------------------------
(* Properties of the price text normaliser, checked under SpecNormalizer *)

\* C14 as claimed: extractPrice returns the amount the text denotes, keeping
\* its two decimal places: 1234.50 for "₹1,234.50", 250000 for "₹2.5 L", 999
\* for "Rs. 999" (amounts compared in hundredths of a rupee).
C14_ExtractsDenotedAmount ==
    LET denotedHundredths ==
            "₹1,234.50" :> 123450 @@ "₹2.5 L" :> 25000000 @@ "Rs. 999" :> 99900
    IN (/\ call # null
        /\ call.fn = "extractPrice"
        /\ call.priceText \in DOMAIN denotedHundredths)
       => 100 * call.result = denotedHundredths[call.priceText]

\* C15: an amount extracted from a price text, formatted by formatINR and
\* extracted again, is the same amount.
C15_RoundTrip ==
    (call # null /\ call.fn = "extractPrice(formatINR)")
    => call.result = call.amount

\* 2.5 lakh, formatted with the Indian grouping and read back
C15_Witness ==
    /\ call # null
    /\ call.fn = "extractPrice(formatINR)"
    /\ call.priceText = "₹2.5 L"
    /\ call.amount = 250000
    /\ call.formatted = "₹2,50,000.00"
    /\ call.result = 250000

----------------------------------------------------------------------------
(* What replaces a rejected price, checked under SpecValidator *)

\* C20: when validateAndNormalizePrice rejects a positive price and
\* validatePriceByCategory supplied a suggestion (the price is within
\* [10, 500000] and outside the matched category's [min, max]), the price
\* returned is exactly that suggestion; when it rejects the price and no
\* suggestion is supplied (the price is below 10 or above 500000, checks that
\* come before the category validator is asked), the price returned is
\* generateReasonablePrice of the product name.
C20_SuggestionOrEstimate ==
    (Normalized /\ validation.price > 0) =>
        LET outOfBounds == \/ validation.price > maxReasonablePrice
                           \/ validation.price < minReasonablePrice
            suggested == validatePriceByCategory(validation.price,
                             validation.productName, validation.platform)
        IN /\ (~outOfBounds /\ ~suggested.isValid
                   /\ suggested.suggestedPrice # undefined)
               => validation.result = suggested.suggestedPrice
           /\ (outOfBounds \/ (~suggested.isValid
                                /\ suggested.suggestedPrice = undefined))
               => validation.result = generateReasonablePrice(validation.productName)

\* a pair of jeans at 399, one below the jeans min: the suggestion 800 is
\* returned, not the estimate for jeans
C20_Witness ==
    /\ Normalized
    /\ validation.productName = "jeans"
    /\ validation.price = 399
    /\ validation.result = 800
    /\ generateReasonablePrice("jeans") # 800

----------------------------------------------------------------------------
(* The responses of the POST handler, checked under Spec *)

\* C17 as claimed: a response reports a failure only when the product URL of
\* the request is missing or does not parse; every request whose product URL
\* parses is answered with success and a comparison of at least one record,
\* whatever happened to the fetch, the extraction and the prices.
C17_FailureOnlyForMalformedUrl ==
    response # null =>
        LET malformed == \/ request = SyntaxError
                         \/ request.productUrl = null
                         \/ request.productUrl.url = null
                         \/ URL(request.productUrl) = TypeError
        IN IF malformed THEN response.status # 200
           ELSE /\ response.status = 200
                /\ response.success
                /\ Len(response.analysis.priceComparison) >= 1

\* C17, amended: a response reports a failure only when the product URL of the
\* request is missing, does not parse, or parses with a scheme other than http
\* and https; every request with an http(s) URL is answered with success and a
\* comparison of at least one record, whatever happened to the fetch, the
\* extraction and the prices.
C17_FailureOnlyForRejectedUrl ==
    response # null =>
        LET rejected == \/ request = SyntaxError
                        \/ request.productUrl = null
                        \/ request.productUrl.url = null
                        \/ URL(request.productUrl) = TypeError
                        \/ URL(request.productUrl).protocol \notin {"http:", "https:"}
        IN IF rejected THEN response.status # 200
           ELSE /\ response.status = 200
                /\ response.success
                /\ Len(response.analysis.priceComparison) >= 1

\* a request for a page of an unknown shop whose fetch failed, answered with
\* success and a comparison
C17_Witness ==
    /\ pc = "responded"
    /\ request # SyntaxError
    /\ request.productUrl # null
    /\ request.productUrl.protocol = "https:"
    /\ detectPlatform(productUrl) = "Unknown"
    /\ html = null
    /\ response.status = 200
    /\ Len(response.analysis.priceComparison) >= 2

----------------------------------------------------------------------------
(* Completion of a request, checked under SpecLive *)

\* C18: every analysis request eventually completes: once analyzeProduct
\* awaits the page fetch, the analysis result is eventually produced, a fetch
\* that never responds being treated like a failed fetch.
C18_EveryRequestCompletes ==
    (pc = "fetching") ~> (analysis # null)

----------------------------------------------------------------------------
(* Platform isolation of findSimilarProducts, checked under SpecSimilar *)

SimilarProducts == call # null /\ call.fn = "findSimilarProducts"

\* C19: whatever each search gave (fetch error, no result, exception or a
\* result), every candidate platform is processed: after the Amazon search the
\* Flipkart search is still awaited unless Flipkart is the source platform,
\* and the returned results hold exactly one record for each of Amazon and
\* Flipkart that is not the source platform, in that order.
C19_PlatformIsolation ==
    SimilarProducts =>
        LET source == call.originalProduct.platform
            candidates == SelectSeq(<<"Amazon", "Flipkart">>,
                                    LAMBDA platform : platform # source)
            platforms == [i \in 1..Len(call.results) |-> call.results[i].platform]
        IN /\ Len(call.results) = Len(call.searched)
           /\ platforms = SubSeq(candidates, 1, Len(call.results))
           /\ call.awaiting = "returned" => platforms = candidates
           /\ call.awaiting # "returned"
                 => call.awaiting = candidates[Len(call.results) + 1]

\* a Myntra product: the Amazon search failed, the Flipkart search found a
\* result, and both platforms are in the results
C19_Witness ==
    /\ SimilarProducts
    /\ call.awaiting = "returned"
    /\ call.originalProduct.platform = "Myntra"
    /\ call.searched[1].result = null
    /\ call.searched[2].result # null
    /\ call.results[1].platform = "Amazon"
    /\ call.results[2].platform = "Flipkart"
    /\ call.results[2].price = 12999

----------------------------------------------------------------------------
(* The price of a platform whose page gave nothing *)

\* C21: whenever a platform's page fetch fails or its extraction returns
\* absent, the selling price of that platform's record is the estimator's
\* output for the product name: for the source platform (the name read from
\* the URL) and for each cross-platform search of findSimilarProducts (the
\* name of the source product).
C21_FallbackPriceIsEstimate ==
    /\ (/\ pc \in {"extracted", "extract_failed"}
        /\ (html = null
            \/ extractByPlatform(productUrl, html, detectPlatform(productUrl)) = null))
       => originalProduct.price
            = generateReasonablePrice(extractProductNameFromUrl(productUrl))
    /\ SimilarProducts
       => \A i \in 1..Len(call.searched) :
             call.searched[i].result = null
             => call.results[i].price
                  = generateReasonablePrice(call.originalProduct.name)

----------------------------------------------------------------------------
(* Validation before a record is returned *)

\* C22: every record built from fetched markup carries validated prices and
\* a discount computed from them: the record of the source page has the
\* discount of its own selling and list price, and the price of a record that
\* findSimilarProducts built from a search page is validateAndNormalizePrice
\* of the price extracted from that page.
C22_ValidatedBeforeReturned ==
    /\ (pc \in {"extracted", "extract_failed"} /\ html # null)
       => /\ originalProduct.discountAmount
               = calculateDiscount(originalProduct.price,
                                   originalProduct.originalPrice).discountAmount
          /\ originalProduct.discountPercentage
               = calculateDiscount(originalProduct.price,
                                   originalProduct.originalPrice).discountPercentage
          /\ minReasonablePrice <= originalProduct.price
          /\ originalProduct.price <= maxReasonablePrice
    /\ SimilarProducts
       => \A i \in 1..Len(call.searched) :
             call.searched[i].result # null
             => call.results[i].price
                  = validateAndNormalizePrice(
                        extractPrice(call.searched[i].page.priceText),
                        call.searched[i].page.name, call.searched[i].platform)

----------------------------------------------------------------------------
(* Selector order, checked under SpecSelectors *)

\* C23: each field comes from the first selector, in list order, whose text
\* is non-empty, and no later selector is consulted: the name is that text,
\* the selling price is extractPrice of that text, and the list price is
\* extractPrice of that text or absent.
C23_FirstNonEmptySelectorWins ==
    (call # null /\ call.fn = "extractAmazonPrices") =>
        LET first(texts) ==
                LET filled == {i \in 1..Len(texts) : trim(texts[i]) # ""}
                IN IF filled = {} THEN ""
                   ELSE trim(texts[CHOOSE i \in filled : \A j \in filled : i <= j])
        IN /\ call.name = first(call.titleTexts)
           /\ call.result.price = extractPrice(first(call.priceTexts))
           /\ call.result.originalPrice
                \in {undefined, extractPrice(first(call.mrpTexts))}

----------------------------------------------------------------------------
(* Magnitude tokens, checked under SpecNormalizer *)

\* C24: the number matched in a price text is multiplied by exactly one
\* magnitude, the crore before the lakh before the thousand: an amount
\* followed by K, L, Lakh, Cr or Crore is that amount times 1,000, 100,000 or
\* 10,000,000, a text with a crore and a lakh token is scaled as crore, and a
\* text with a lakh and a thousand token as lakh (amounts in hundredths).
C24_OneMultiplierByPriority ==
    (call # null /\ call.fn = "extractPrice") =>
        LET hundredths == "2.5" :> 250 @@ "1.5" :> 150 @@ "0.99" :> 99
                          @@ "12" :> 1200 @@ "7" :> 700
            exponent == "K" :> 3 @@ "k" :> 3 @@ " K" :> 3
                        @@ "L" :> 5 @@ " L" :> 5 @@ " Lakh" :> 5
                        @@ " Cr" :> 7 @@ " Crore" :> 7
        IN /\ \A pre \in CurrencyPrefixes, amount \in SuffixedAmounts,
                 suffix \in Suffixes :
                 call.priceText = pre \o amount \o suffix
                 => call.result = hundredths[amount] * Pow10(exponent[suffix] - 2)
           /\ call.priceText = "₹1.5 Cr (150 Lakh)" => call.result = 15000000
           /\ call.priceText = "2 Lakh (200K)" => call.result = 200000

\* a lakh amount, whose token also holds the letter K
C24_Witness ==
    /\ call # null
    /\ call.fn = "extractPrice"
    /\ call.priceText = "Rs. 0.99 Lakh"
    /\ call.result = 99000

\* C29: a price text whose only letters belong to words that are no magnitude
\* token (an amount followed by "only" or "each", or preceded by a seller
\* name) gives the plain numeric value, multiplied by 1.
C29_WordsDoNotScale ==
    LET plain == "₹999 only" :> 999 @@ "Kala Store ₹500" :> 500
                 @@ "Rs. 450 each" :> 450
    IN (/\ call # null
        /\ call.fn = "extractPrice"
        /\ call.priceText \in DOMAIN plain)
       => call.result = plain[call.priceText]

----------------------------------------------------------------------------
(* Category inference, checked under SpecValidator *)

\* C25: category inference is first-match-wins in table order.  When a type
\* of validationRanges is contained in the lowercased name and no earlier
\* type is, validatePriceByCategory judges the price by that type's range
\* alone; when a keyword of priceRanges is contained in the name and no
\* earlier keyword is, the estimate that replaces a price outside [10, 500000]
\* lies in that keyword's range.
C25_FirstMatchWins ==
    /\ Categorized =>
         \A k \in 1..Len(validationRanges) :
            (/\ includes(toLowerCase(validation.productName), validationRanges[k].type)
             /\ \A j \in 1..(k - 1) :
                   ~includes(toLowerCase(validation.productName),
                             validationRanges[j].type))
            => /\ validation.result.isValid
                    = (/\ validationRanges[k].min <= validation.price
                       /\ validation.price <= validationRanges[k].max)
               /\ ~validation.result.isValid
                    => validation.result.suggestedPrice
                         \in {validationRanges[k].typical.min,
                              validationRanges[k].typical.max, validation.price}
    /\ (/\ Normalized
        /\ validation.price > 0
        /\ (validation.price < minReasonablePrice
            \/ validation.price > maxReasonablePrice)) =>
         \A k \in 1..(Len(priceRanges) - 1) :
            (/\ includes(toLowerCase(validation.productName), priceRanges[k].keyword)
             /\ \A j \in 1..(k - 1) :
                   ~includes(toLowerCase(validation.productName),
                             priceRanges[j].keyword))
            => /\ priceRanges[k].min <= validation.result
               /\ validation.result <= priceRanges[k].max

\* "t-shirt" contains shirt, which comes first: 149 is below the shirt min 150
\* and rejected, though within the t-shirt range
C25_Witness ==
    /\ Categorized
    /\ validation.productName = "t-shirt"
    /\ validation.price = 149
    /\ validation.result = [isValid |-> FALSE, suggestedPrice |-> 400]

\* C30: every type of validationRanges is selectable: for a product name equal
\* to the type, validatePriceByCategory judges the price by that type's own
\* min and max.
C30_EveryTypeSelectable ==
    Categorized =>
        \A k \in 1..Len(validationRanges) :
            validation.productName = validationRanges[k].type
            => validation.result.isValid
                 = (/\ validationRanges[k].min <= validation.price
                    /\ validation.price <= validationRanges[k].max)

----------------------------------------------------------------------------
(* Properties of the price monitor, checked under SpecMonitor *)

\* C26: whenever no POST is left waiting, the two maps agree: every alert of
\* priceAlerts is listed in the alerts of the monitored product that has its
\* productId, and every alert listed under a product is the one priceAlerts
\* holds under its id; so two POSTs for one new productId that run
\* concurrently leave both alerts listed under that product.
C26_MapsConsistent ==
    DOMAIN inflight = {} =>
        /\ \A id \in DOMAIN priceAlerts :
              /\ priceAlerts[id].productId \in DOMAIN monitoredProducts
              /\ priceAlerts[id] \in
                    elements(monitoredProducts[priceAlerts[id].productId].alerts)
        /\ \A p \in DOMAIN monitoredProducts :
              \A a \in elements(monitoredProducts[p].alerts) :
                  /\ a.productId = p
                  /\ a.id \in DOMAIN priceAlerts
                  /\ priceAlerts[a.id] = a

\* C28: the response to a GET made with userId U, with or without a
\* productId, holds no alert of another user: not in alerts, not in the
\* product, not in the products.
C28_UserIsolation ==
    (/\ request # null
     /\ "method" \in DOMAIN request
     /\ request.method = "GET"
     /\ response.status = 200
     /\ "totalAlerts" \in DOMAIN response \/ "product" \in DOMAIN response) =>
        IF "product" \in DOMAIN response
        THEN /\ \A a \in elements(response.alerts) : a.userId = request.userId
             /\ \A a \in elements(response.product.alerts) : a.userId = request.userId
        ELSE \A p \in DOMAIN response.products :
                 \A a \in elements(response.products[p].alerts) :
                     a.userId = request.userId

----------------------------------------------------------------------------
(* Properties of the database, checked under SpecDatabase *)

\* C27: after any sequence of addBudget, addExpense, deleteExpense and
\* deleteBudget, the spent of every stored budget is the sum of the amounts of
\* the stored expenses that name it: recalculateBudgetSpending would save the
\* budgets as they are.
C27_SpentMatchesExpenses ==
    recalculateBudgetSpending(expenses, budgets) = budgets

====
